---- MODULE Spec2Model ----
(***************************************************************************)
(* Stock data acquisition and cache freshness: the orchestrator            *)
(* StockDataClient.get_stock_data (stock_data_client.py), its cache store  *)
(* accessors, the Polygon adapter's failure signals, and the older         *)
(* multi-source waterfall YFinanceClient.get_stock_data                    *)
(* (yfinance_client.py).                                                   *)
(*                                                                         *)
(* Conventions.  A Python string is a sequence of tokens: single           *)
(* characters where the code inspects characters (tickers, API keys,       *)
(* status codes) and whole phrases elsewhere.  An Optional value is a      *)
(* sequence of length 0 (None) or 1.  Time is counted in minutes.  Hours   *)
(* rounded to one decimal are counted in tenths of an hour.  Money and     *)
(* ratios are integers.                                                    *)
(***************************************************************************)
EXTENDS Integers, Sequences, FiniteSets, Bags, TLC

VARIABLES
    now,        \* datetime.utcnow(), in minutes
    api_key,    \* PolygonClient.api_key, Optional string
    summaries,  \* committed rows of table stock_summaries (a set of rows)
    earnings,   \* committed rows of table earnings (a bag of rows)
    pc,         \* per request: position in get_stock_data
    args,       \* per request: ticker as passed and normalized, force_refresh
    data,       \* per request: the payload the provider returned
    txn,        \* per request: uncommitted work of its database session
    session,    \* per request: state of its database session
    upstream,   \* per request: provider calls issued by the current call
    result,     \* per request: what the call returned or raised
    env,        \* FINNHUB_API_KEY and ALPHA_VANTAGE_API_KEY, Optional strings
    attempts,   \* the sources the current waterfall call tried, in order
    call,       \* the helper function being called and its arguments
    ret,        \* what that call returned, Optional
    estimates_cache,  \* FinnhubEstimatesClient._cache, per cache key
    last_fetch  \* per cache key: the latest answer of the estimates upstream

vars == <<now, api_key, summaries, earnings, pc, args, data, txn, session,
          upstream, result, env, attempts, call, ret, estimates_cache,
          last_fetch>>

-----------------------------------------------------------------------------
(* Bounds *)

MaxTicks == 3

-----------------------------------------------------------------------------
(* Optional values and strings *)

None == <<>>

Some(x) == <<x>>

\* no helper function is being called
NoCall == [fn |-> "none"]

\* the cache keys of FinnhubEstimatesClient: the upper-cased tickers asked for
EstimateKeys == {<<"A", "B">>, <<>>}

\* no entry under any cache key
NoEstimates == [k \in EstimateKeys |-> None]

IsWhitespace(c) == c = " "

\* the letters str.upper() maps, and their images
LowerLetters ==
    <<"a", "b", "c", "d", "e", "f", "g", "h", "i", "j", "k", "l", "m", "n",
    "o", "p", "q", "r", "s", "t", "u", "v", "w", "x", "y", "z">>

UpperLetters ==
    <<"A", "B", "C", "D", "E", "F", "G", "H", "I", "J", "K", "L", "M", "N",
    "O", "P", "Q", "R", "S", "T", "U", "V", "W", "X", "Y", "Z">>

UpperChar(c) ==
    IF \E i \in 1..Len(LowerLetters) : LowerLetters[i] = c
    THEN UpperLetters[CHOOSE i \in 1..Len(LowerLetters) : LowerLetters[i] = c]
    ELSE c

LowerChar(c) ==
    CASE c = "A" -> "a"
      [] c = "B" -> "b"
      [] c = "X" -> "x"
      [] c = "K" -> "k"
      [] c = "Ticker" -> "ticker"
      [] c = "Client Error" -> "client error"
      [] c = "Server Error" -> "server error"
      [] c = "Too Many Requests" -> "too many requests"
      [] c = "Not Found" -> "not found"
      [] c = "Unauthorized" -> "unauthorized"
      [] c = "Internal Server Error" -> "internal server error"
      [] c = "Read timed out" -> "read timed out"
      [] c = "OperationalError" -> "operationalerror"
      [] OTHER -> c

Upper(s) == [i \in 1..Len(s) |-> UpperChar(s[i])]

Lower(s) == [i \in 1..Len(s) |-> LowerChar(s[i])]

RECURSIVE LStrip(_)
LStrip(s) ==
    IF s # <<>> /\ IsWhitespace(Head(s)) THEN LStrip(Tail(s)) ELSE s

RECURSIVE RStrip(_)
RStrip(s) ==
    IF s # <<>> /\ IsWhitespace(s[Len(s)])
    THEN RStrip(SubSeq(s, 1, Len(s) - 1))
    ELSE s

Strip(s) == RStrip(LStrip(s))

\* Python's `needle in s`
Contains(s, needle) ==
    \E i \in 1..(Len(s) - Len(needle) + 1) :
        SubSeq(s, i, i + Len(needle) - 1) = needle

\* ticker.upper() alone: surrounding whitespace stays
NormalizeTicker_upper_only(raw) == Upper(raw)

\* ticker.upper().strip()
NormalizeTicker(raw) == Strip(Upper(raw))

-----------------------------------------------------------------------------
(* Dates and times *)

\* quarter ends, oldest first; a calendar date is its position in this list
\* counted from "2023-09-30" = 1
DateStrings ==
    <<"2022-09-30", "2022-12-31", "2023-03-31", "2023-06-30",
      "2023-09-30", "2023-12-31", "2024-03-31", "2024-06-30">>

\* the Date column: an ISO date string is stored as a calendar date
ParseDate(s) ==
    (CHOOSE i \in 1..Len(DateStrings) : DateStrings[i] = s) - 4

\* date.isoformat()
DateIsoFormat(d) == DateStrings[d + 4]

\* datetime.isoformat() and datetime.fromisoformat()
IsoFormat(t) == <<"T", t>>

FromIsoFormat(s) == s[2]

Minutes(n) == n

Hours(n) == n * 60

CACHE_TTL ==
    [price |-> Minutes(1), financials |-> Hours(24), company_info |-> Hours(24)]

SetMax(S) == CHOOSE x \in S : \A y \in S : y <= x

SetMin(S) == CHOOSE x \in S : \A y \in S : x <= y

MaxTTL == SetMax({CACHE_TTL[k] : k \in DOMAIN CACHE_TTL})

\* round(age.total_seconds() / 3600, 1), in tenths of an hour: the nearest
\* tenth; an exact half goes either way, as the float quotient decides
RoundHours(age) ==
    LET q == age \div 6
        m == age % 6
    IN  IF m < 3 THEN {q} ELSE IF m > 3 THEN {q + 1} ELSE {q, q + 1}

-----------------------------------------------------------------------------
(* The primary provider: PolygonClient *)

\* os.getenv("POLYGON_API_KEY"): unset, empty, or a key; a key is part of
\* every request URL
ApiKeys == {None, Some(<<>>), Some(<<"k">>), Some(<<"k", "4", "0", "1">>)}

\* configured whenever the variable is set, even to the empty string
is_configured_when_set == api_key # None

is_configured == api_key # None /\ api_key[1] # <<>>

\* request tickers as typed by callers
RawTickers == {<<"a", "b">>, <<" ", "A", "B", " ">>, <<"x", "4", "2", "9">>}

\* the tickers the provider has data for
KnownTickers == {<<"A", "B">>}

EarningsLine(date, period, eps, revenue) ==
    [fiscal_date |-> date, period |-> period, reported_eps |-> eps,
     estimated_eps |-> None, surprise_pct |-> None, revenue |-> revenue,
     free_cash_flow |-> None, pe_ratio |-> None, price |-> None]

\* payloads PolygonClient.get_stock_data can return for a ticker: one with
\* every field found, one with fields missing (partial data)
ProviderPayloads(ticker) ==
    { [name |-> <<"Acme Inc.">>, ticker |-> ticker, market_cap |-> Some(900),
       current_price |-> Some(40), pe_ratio |-> Some(5),
       next_earnings_date |-> None,
       earnings |-> << EarningsLine("2024-06-30", "Q2", Some(2), Some(70)),
                       EarningsLine("2024-03-31", "Q1", Some(2), Some(60)),
                       EarningsLine("2023-12-31", "Q4", Some(2), Some(50)),
                       EarningsLine("2023-09-30", "Q3", Some(2), None) >>,
       source |-> "Polygon.io"],
      [name |-> ticker, ticker |-> ticker, market_cap |-> None,
       current_price |-> None, pe_ratio |-> None,
       next_earnings_date |-> None,
       earnings |-> << EarningsLine("2024-06-30", "Q2", None, None) >>,
       source |-> "Polygon.io"] }

\* how a call to the provider can fail
FailKinds ==
    {"http429", "http404", "http401", "http500", "status_not_ok", "timeout"}

\* str(e) of requests' HTTPError raised by response.raise_for_status()
HttpErrorMsg(code, class, reason, ticker) ==
    code \o <<" ", class, ": ", reason, " ", "for url: ",
              "https://api.polygon.io/v3/reference/tickers/">>
         \o ticker \o <<"?apiKey=">> \o api_key[1]

\* str(e) of the exception PolygonClient.get_stock_data raises
ErrorMsg(kind, ticker) ==
    CASE kind = "http429" ->
            HttpErrorMsg(<<"4", "2", "9">>, "Client Error",
                         "Too Many Requests", ticker)
      [] kind = "http404" ->
            HttpErrorMsg(<<"4", "0", "4">>, "Client Error", "Not Found", ticker)
      [] kind = "http401" ->
            HttpErrorMsg(<<"4", "0", "1">>, "Client Error", "Unauthorized",
                         ticker)
      [] kind = "http500" ->
            HttpErrorMsg(<<"5", "0", "0">>, "Server Error",
                         "Internal Server Error", ticker)
      [] kind = "status_not_ok" ->
            <<"Ticker", " ">> \o ticker \o <<" ", "not found">>
      [] kind = "timeout" ->
            <<"HTTPSConnectionPool(host='api.polygon.io', port=",
              "4", "4", "3", "): ", "Read timed out", ". (read timeout=",
              "1", "0", ")">>

\* str(e) of a database error: SQLAlchemy appends the statement's parameters
DbErrorMsg(ticker) ==
    <<"(", "OperationalError", ") ", "[parameters: {'ticker': '">>
        \o ticker \o <<"'}]">>

\* the error get_stock_data raises when no cache exists: first matching
\* indicator wins
ClassifyError(error_msg) ==
    IF Contains(error_msg, <<"4", "2", "9">>)
           \/ Contains(Lower(error_msg), <<"rate limit">>)
    THEN "RateLimited"
    ELSE IF Contains(error_msg, <<"4", "0", "4">>)
           \/ Contains(Lower(error_msg), <<"not found">>)
    THEN "NotFound"
    ELSE IF Contains(error_msg, <<"4", "0", "1">>)
           \/ Contains(Lower(error_msg), <<"unauthorized">>)
    THEN "Unauthorized"
    ELSE "UpstreamUnavailable"

-----------------------------------------------------------------------------
(* The cache store: tables stock_summaries and earnings, and sessions *)

Reqs == {"r1", "r2"}

NoTxn == [del |-> EmptyBag, adds |-> <<>>, ups |-> None, sdel |-> {}]

\* the Session a handler works with: the committed tables and the session's
\* own open transaction
Session(r) == [summaries |-> summaries, earnings |-> earnings, tx |-> txn[r]]

\* what a query of a session sees: the committed rows, with the session's
\* own executed statements applied (pending adds are not flushed: the
\* session is created with autoflush=False)
ViewSummaries(db) ==
    IF db.tx.ups = None
    THEN db.summaries \ db.tx.sdel
    ELSE {s \in db.summaries \ db.tx.sdel : s.ticker # db.tx.ups[1].ticker}
             \cup {db.tx.ups[1]}

ViewEarnings(db) == db.earnings (-) db.tx.del

RowsOf(bag, ticker) ==
    LET keep == {e \in BagToSet(bag) : e.ticker = ticker}
    IN  [e \in keep |-> bag[e]]

\* a bag of rows as a list, latest fiscal_date first
RECURSIVE SortDesc(_)
SortDesc(bag) ==
    IF BagToSet(bag) = {}
    THEN <<>>
    ELSE LET top == CHOOSE e \in BagToSet(bag) :
                        \A o \in BagToSet(bag) : o.fiscal_date <= e.fiscal_date
         IN  <<top>> \o SortDesc(bag (-) SetToBag({top}))

\* db.query(EarningsRecord).filter(ticker == t).order_by(fiscal_date.desc())
QueryEarnings(db, ticker) == SortDesc(RowsOf(ViewEarnings(db), ticker))

\* db.query(StockSummary).filter(StockSummary.ticker == ticker)
QuerySummary(db, ticker) == {s \in ViewSummaries(db) : s.ticker = ticker}

format_response(ticker, summary, rows) ==
    [ticker |-> ticker,
     name |-> summary.name,
     summary |-> [ticker |-> ticker, name |-> summary.name,
                  market_cap |-> summary.market_cap,
                  current_price |-> summary.current_price,
                  pe_ratio |-> summary.pe_ratio,
                  next_earnings_date |->
                      IF summary.next_earnings_date # None
                      THEN Some(DateIsoFormat(summary.next_earnings_date[1]))
                      ELSE None],
     earnings |-> [i \in 1..Len(rows) |->
                      [fiscal_date |-> DateIsoFormat(rows[i].fiscal_date),
                       period |-> rows[i].period,
                       reported_eps |-> rows[i].reported_eps,
                       estimated_eps |-> rows[i].estimated_eps,
                       surprise_pct |-> rows[i].surprise_pct,
                       revenue |-> rows[i].revenue,
                       free_cash_flow |-> rows[i].free_cash_flow,
                       pe_ratio |-> rows[i].pe_ratio,
                       price |-> rows[i].price]],
     source |-> "Polygon.io",
     cached_at |-> IsoFormat(summary.fetched_at)]

\* cache_age of _get_cached_data: Optional, None when the ticker has no row
CacheAge(db, ticker) ==
    IF QuerySummary(db, ticker) = {}
    THEN None
    ELSE Some(now - (CHOOSE s \in QuerySummary(db, ticker) : TRUE).fetched_at)

\* _get_cached_data with the shortest TTL as the limit
get_cached_data_min_ttl(ticker, db, accept_stale) ==
    IF QuerySummary(db, ticker) = {}
    THEN {None}
    ELSE LET summary == CHOOSE s \in QuerySummary(db, ticker) : TRUE
             cache_age == now - summary.fetched_at
         IN  IF ~accept_stale
                  /\ cache_age > SetMin({CACHE_TTL[k] : k \in DOMAIN CACHE_TTL})
             THEN {None}
             ELSE { Some(("_fetched_at" :> Some(IsoFormat(summary.fetched_at)))
                         @@ ("_cache_age_hours" :> h)
                         @@ format_response(ticker, summary,
                                            QueryEarnings(db, ticker)))
                    : h \in RoundHours(cache_age) }

\* _get_cached_data: the possible return values (Optional response); more
\* than one only where the rounding of _cache_age_hours is a tie
get_cached_data(ticker, db, accept_stale) ==
    IF QuerySummary(db, ticker) = {}
    THEN {None}
    ELSE LET summary == CHOOSE s \in QuerySummary(db, ticker) : TRUE
             cache_age == now - summary.fetched_at
         IN  IF ~accept_stale /\ cache_age > MaxTTL
             THEN {None}
             ELSE { Some(("_fetched_at" :> Some(IsoFormat(summary.fetched_at)))
                         @@ ("_cache_age_hours" :> h)
                         @@ format_response(ticker, summary,
                                            QueryEarnings(db, ticker)))
                    : h \in RoundHours(cache_age) }

\* _get_cache_age_hours measuring from the epoch instead of fetched_at
get_cache_age_hours_no_base(fetched_at_iso) ==
    IF fetched_at_iso = None
    THEN {0}
    ELSE RoundHours(now)

\* _get_cache_age_hours
get_cache_age_hours(fetched_at_iso) ==
    IF fetched_at_iso = None
    THEN {0}
    ELSE RoundHours(now - FromIsoFormat(fetched_at_iso[1]))

\* the rows with pe_ratio and price taken from each earnings line
NewEarningsRecords_per_line(ticker, payload) ==
    [i \in 1..Len(payload.earnings) |->
        [ticker |-> ticker,
         fiscal_date |-> ParseDate(payload.earnings[i].fiscal_date),
         period |-> payload.earnings[i].period,
         reported_eps |-> payload.earnings[i].reported_eps,
         estimated_eps |-> payload.earnings[i].estimated_eps,
         surprise_pct |-> payload.earnings[i].surprise_pct,
         revenue |-> payload.earnings[i].revenue,
         free_cash_flow |-> payload.earnings[i].free_cash_flow,
         pe_ratio |-> payload.earnings[i].pe_ratio,
         price |-> payload.earnings[i].price]]

\* the rows _save_polygon_data adds for a payload
NewEarningsRecords(ticker, payload) ==
    LET current_price ==
            IF payload.current_price # None /\ payload.current_price[1] # 0
            THEN payload.current_price ELSE Some(0)
    IN  [i \in 1..Len(payload.earnings) |->
            [ticker |-> ticker,
             fiscal_date |-> ParseDate(payload.earnings[i].fiscal_date),
             period |-> payload.earnings[i].period,
             reported_eps |-> payload.earnings[i].reported_eps,
             estimated_eps |-> payload.earnings[i].estimated_eps,
             surprise_pct |-> payload.earnings[i].surprise_pct,
             revenue |-> payload.earnings[i].revenue,
             free_cash_flow |-> payload.earnings[i].free_cash_flow,
             pe_ratio |-> payload.pe_ratio,
             price |-> current_price]]

\* summary_values of _save_polygon_data
SummaryValues(ticker, payload) ==
    [ticker |-> ticker, name |-> payload.name,
     market_cap |-> payload.market_cap,
     current_price |-> payload.current_price,
     pe_ratio |-> payload.pe_ratio,
     next_earnings_date |-> payload.next_earnings_date,
     fetched_at |-> now]

RECURSIVE SeqToBag(_)
SeqToBag(s) ==
    IF s = <<>> THEN EmptyBag ELSE SetToBag({Head(s)}) (+) SeqToBag(Tail(s))

-----------------------------------------------------------------------------
(* StockDataClient.get_stock_data, one request at a time or interleaved *)

NoArgs ==
    [raw |-> <<>>, ticker |-> <<>>, force_refresh |-> FALSE,
     cache_age |-> None,
     summary_values |-> None]

NoResult ==
    [kind |-> "none", path |-> "none", body |-> None, category |-> "none",
     cause |-> "none", age |-> None]

\* a returned response; path names the return statement taken
Returned(path, body, cause, age) ==
    [kind |-> "ok", path |-> path, body |-> Some(body), category |-> "none",
     cause |-> cause, age |-> age]

\* a raised exception
Raised(category, cause) ==
    [kind |-> "error", path |-> "raise", body |-> None, category |-> category,
     cause |-> cause, age |-> None]

NotConfiguredWarning ==
    [text |-> "Using cached data - API key not configured", hours |-> None]

\* f"Using {hours_old} hour old data - API temporarily unavailable"
StaleWarning(hours_old) ==
    [text |-> "Using {hours_old} hour old data - API temporarily unavailable",
     hours |-> Some(hours_old)]

WithWarning(body, warning) == ("_warning" :> warning) @@ body

\* the except branch of get_stock_data: what the call returns or raises after
\* the fetch-and-save attempt raised error_msg; usable is false when the
\* session refuses further queries after a failed statement
ExceptOutcomes(ticker, db, usable, error_msg, cause) ==
    IF ~usable
    THEN {Raised("Unclassified", cause)}
    ELSE UNION { IF stale_data = None
                 THEN {Raised(ClassifyError(error_msg), cause)}
                 ELSE { Returned("stale",
                                 WithWarning(stale_data[1],
                                             StaleWarning(hours_old)),
                                 cause, CacheAge(db, ticker))
                        : hours_old \in
                            get_cache_age_hours(stale_data[1]["_fetched_at"]) }
                 : stale_data \in get_cached_data(ticker, db, TRUE) }

Finish(r, res) ==
    /\ result' = [result EXCEPT ![r] = res]
    /\ pc' = [pc EXCEPT ![r] = "done"]

\* lines 67-83: normalize, configuration check, cache check
Call(r, raw, force_refresh) ==
    /\ pc[r] = "idle"
    /\ LET ticker == NormalizeTicker(raw)
           db == Session(r)
       IN  /\ upstream' = [upstream EXCEPT ![r] = 0]
           /\ IF ~is_configured
              THEN /\ args' = [args EXCEPT ![r] =
                        [raw |-> raw, ticker |-> ticker,
                         force_refresh |-> force_refresh,
                         cache_age |-> CacheAge(db, ticker),
                         summary_values |-> None]]
                   /\ \E cached \in get_cached_data(ticker, db, TRUE) :
                        Finish(r, IF cached # None
                                  THEN Returned("unconfigured",
                                           WithWarning(cached[1],
                                                       NotConfiguredWarning),
                                           "not_configured",
                                           CacheAge(db, ticker))
                                  ELSE Raised("NotConfigured",
                                              "not_configured"))
              ELSE IF ~force_refresh
              THEN /\ args' = [args EXCEPT ![r] =
                        [raw |-> raw, ticker |-> ticker,
                         force_refresh |-> force_refresh,
                         cache_age |-> CacheAge(db, ticker),
                         summary_values |-> None]]
                   /\ \E cached \in get_cached_data(ticker, db, FALSE) :
                        IF cached # None
                        THEN Finish(r, Returned("hit", cached[1], "none",
                                                CacheAge(db, ticker)))
                        ELSE /\ pc' = [pc EXCEPT ![r] = "fetch"]
                             /\ UNCHANGED result
              ELSE /\ args' = [args EXCEPT ![r] =
                        [raw |-> raw, ticker |-> ticker,
                         force_refresh |-> force_refresh,
                         cache_age |-> None,
                         summary_values |-> None]]
                   /\ pc' = [pc EXCEPT ![r] = "fetch"]
                   /\ UNCHANGED result
    /\ UNCHANGED <<now, api_key, summaries, earnings, data, txn, session>>
    /\ UNCHANGED <<env, attempts, call, ret, estimates_cache, last_fetch>>

\* line 88: polygon_client.get_stock_data(ticker) returns a payload
FetchReturns(r) ==
    /\ pc[r] = "fetch"
    /\ args[r].ticker \in KnownTickers
    /\ \E payload \in ProviderPayloads(Upper(args[r].ticker)) :
          data' = [data EXCEPT ![r] = Some(payload)]
    /\ upstream' = [upstream EXCEPT ![r] = @ + 1]
    /\ pc' = [pc EXCEPT ![r] = "save_delete"]
    /\ UNCHANGED <<now, api_key, summaries, earnings, args, txn, session,
                   result>>
    /\ UNCHANGED <<env, attempts, call, ret, estimates_cache, last_fetch>>

\* line 88 raises; lines 90-110
FetchRaises(r) ==
    /\ pc[r] = "fetch"
    /\ upstream' = [upstream EXCEPT ![r] = @ + 1]
    /\ \E kind \in FailKinds :
         \E res \in ExceptOutcomes(args[r].ticker, Session(r), TRUE,
                                   ErrorMsg(kind, Upper(args[r].ticker)),
                                   kind) :
            Finish(r, res)
    /\ UNCHANGED <<now, api_key, summaries, earnings, args, data, txn,
                   session>>
    /\ UNCHANGED <<env, attempts, call, ret, estimates_cache, last_fetch>>

\* the sessions other than r
Others(r) == Reqs \ {r}

\* the DELETE of session r waits while another open transaction has deleted
\* rows of the ticker and so holds their row locks
DeleteWaits(r) ==
    \E o \in Others(r) : RowsOf(txn[o].del, args[r].ticker) # EmptyBag

\* the upsert of session r waits while another open transaction holds the
\* summary row of the ticker it has inserted or updated
UpsertWaits(r) ==
    \E o \in Others(r) :
        txn[o].ups # None /\ txn[o].ups[1].ticker = args[r].ticker

\* the write without its DELETE: the rows of the ticker stay
SaveDelete_nothing(r) ==
    /\ pc[r] = "save_delete"
    /\ pc' = [pc EXCEPT ![r] = "save_values"]
    /\ UNCHANGED <<now, api_key, summaries, earnings, args, data, session,
                   upstream, result, txn>>
    /\ UNCHANGED <<env, attempts, call, ret, estimates_cache, last_fetch>>

\* _save_polygon_data lines 164-167: DELETE FROM earnings WHERE ticker = ...
SaveDelete(r) ==
    /\ pc[r] = "save_delete"
    /\ ~DeleteWaits(r)
    /\ txn' = [txn EXCEPT ![r].del = RowsOf(ViewEarnings(Session(r)),
                                            args[r].ticker)]
    /\ pc' = [pc EXCEPT ![r] = "save_values"]
    /\ UNCHANGED <<now, api_key, summaries, earnings, args, data, session,
                   upstream, result>>
    /\ UNCHANGED <<env, attempts, call, ret, estimates_cache, last_fetch>>

\* _save_polygon_data lines 169-205: db.add per earnings line (pending until
\* the flush at commit), then summary_values with fetched_at read from the
\* clock
SaveValues(r) ==
    /\ pc[r] = "save_values"
    /\ txn' = [txn EXCEPT
                 ![r].adds = NewEarningsRecords(args[r].ticker, data[r][1])]
    /\ args' = [args EXCEPT ![r].summary_values =
                    Some(SummaryValues(args[r].ticker, data[r][1]))]
    /\ pc' = [pc EXCEPT ![r] = "save_upsert"]
    /\ UNCHANGED <<now, api_key, summaries, earnings, data, session,
                   upstream, result>>
    /\ UNCHANGED <<env, attempts, call, ret, estimates_cache, last_fetch>>

\* _save_polygon_data lines 207-212: the INSERT ... ON CONFLICT (ticker) DO
\* UPDATE of the summary is executed
SaveUpsert(r) ==
    /\ pc[r] = "save_upsert"
    /\ ~UpsertWaits(r)
    /\ txn' = [txn EXCEPT ![r].ups = args[r].summary_values]
    /\ pc' = [pc EXCEPT ![r] = "save_commit"]
    /\ UNCHANGED <<now, api_key, summaries, earnings, args, data, session,
                   upstream, result>>
    /\ UNCHANGED <<env, attempts, call, ret, estimates_cache, last_fetch>>

\* the tables after session r's transaction commits
Committed(r) ==
    [summaries |-> ViewSummaries(Session(r)),
     earnings |-> ViewEarnings(Session(r)) (+) SeqToBag(txn[r].adds),
     tx |-> NoTxn]

\* _save_polygon_data lines 213-221: commit (flushing the added rows), then
\* re-read and format
SaveCommit(r) ==
    /\ pc[r] = "save_commit"
    /\ LET db == Committed(r)
           ticker == args[r].ticker
       IN  /\ summaries' = db.summaries
           /\ earnings' = db.earnings
           /\ Finish(r, Returned("fetched",
                    format_response(ticker,
                        CHOOSE s \in QuerySummary(db, ticker) : TRUE,
                        QueryEarnings(db, ticker)),
                    "none", None))
    /\ txn' = [txn EXCEPT ![r] = NoTxn]
    /\ UNCHANGED <<now, api_key, args, data, session, upstream>>
    /\ UNCHANGED <<env, attempts, call, ret, estimates_cache, last_fetch>>

\* a statement of _save_polygon_data raises a database error.  The DELETE
\* fails: nothing was executed.  Afterwards the session either refuses
\* queries until rolled back, or stays in its open transaction.
SaveDeleteRaises(r) ==
    /\ pc[r] = "save_delete"
    /\ \E usable \in BOOLEAN :
         /\ session' = [session EXCEPT ![r] = IF usable THEN "ok" ELSE "broken"]
         /\ \E res \in ExceptOutcomes(args[r].ticker, Session(r), usable,
                                      DbErrorMsg(args[r].ticker), "db") :
               Finish(r, res)
    /\ UNCHANGED <<now, api_key, summaries, earnings, args, data, txn,
                   upstream>>
    /\ UNCHANGED <<env, attempts, call, ret, estimates_cache, last_fetch>>

\* the upsert (line 212) fails: the DELETE was executed in the transaction,
\* the added rows are pending
SaveUpsertRaises(r) ==
    /\ pc[r] = "save_upsert"
    /\ \E usable \in BOOLEAN :
         /\ session' = [session EXCEPT ![r] = IF usable THEN "ok" ELSE "broken"]
         /\ \E res \in ExceptOutcomes(args[r].ticker, Session(r), usable,
                                      DbErrorMsg(args[r].ticker), "db") :
               Finish(r, res)
    /\ UNCHANGED <<now, api_key, summaries, earnings, args, data, txn,
                   upstream>>
    /\ UNCHANGED <<env, attempts, call, ret, estimates_cache, last_fetch>>

\* db.commit() (line 213) fails: a failed flush leaves the session refusing
\* queries; a failed COMMIT rolls the transaction back and a later query
\* starts a new one
SaveCommitRaises(r) ==
    /\ pc[r] = "save_commit"
    /\ txn' = [txn EXCEPT ![r] = NoTxn]
    /\ \E usable \in BOOLEAN :
         /\ session' = [session EXCEPT ![r] = IF usable THEN "ok" ELSE "broken"]
         /\ \E res \in ExceptOutcomes(args[r].ticker,
                                      [Session(r) EXCEPT !.tx = NoTxn], usable,
                                      DbErrorMsg(args[r].ticker), "db") :
               Finish(r, res)
    /\ UNCHANGED <<now, api_key, summaries, earnings, args, data, upstream>>
    /\ UNCHANGED <<env, attempts, call, ret, estimates_cache, last_fetch>>

\* the response is handed over and get_db closes the session (rollback)
Return(r) ==
    /\ pc[r] = "done"
    /\ pc' = [pc EXCEPT ![r] = "idle"]
    /\ args' = [args EXCEPT ![r] = NoArgs]
    /\ data' = [data EXCEPT ![r] = None]
    /\ txn' = [txn EXCEPT ![r] = NoTxn]
    /\ session' = [session EXCEPT ![r] = "ok"]
    /\ upstream' = [upstream EXCEPT ![r] = 0]
    /\ result' = [result EXCEPT ![r] = NoResult]
    /\ UNCHANGED <<now, api_key, summaries, earnings>>
    /\ UNCHANGED <<env, attempts, call, ret, estimates_cache, last_fetch>>

\* the clock advances by a minute or by a minute less than the longest TTL
TickSteps == {Minutes(1), MaxTTL - Minutes(1)}

Ticks(t) == (t \div (MaxTTL - 1)) + (t % (MaxTTL - 1))

Tick ==
    /\ Ticks(now) < MaxTicks
    /\ \E d \in TickSteps : now' = now + d
    /\ UNCHANGED <<api_key, summaries, earnings, pc, args, data, txn, session,
                   upstream, result>>
    /\ UNCHANGED <<env, attempts, call, ret, estimates_cache, last_fetch>>

\* the process is restarted with another environment: PolygonClient.__init__
\* reads POLYGON_API_KEY again; the database persists
Restart ==
    /\ \A r \in Reqs : pc[r] = "idle"
    /\ \E k \in ApiKeys \ {api_key} : api_key' = k
    /\ UNCHANGED <<now, summaries, earnings, pc, args, data, txn, session,
                   upstream, result>>
    /\ UNCHANGED <<env, attempts, call, ret, estimates_cache, last_fetch>>

Init ==
    /\ now = 0
    /\ api_key \in ApiKeys
    /\ summaries = {}
    /\ earnings = EmptyBag
    /\ pc = [r \in Reqs |-> "idle"]
    /\ args = [r \in Reqs |-> NoArgs]
    /\ data = [r \in Reqs |-> None]
    /\ txn = [r \in Reqs |-> NoTxn]
    /\ session = [r \in Reqs |-> "ok"]
    /\ upstream = [r \in Reqs |-> 0]
    /\ result = [r \in Reqs |-> NoResult]
    /\ env = [finnhub |-> None, alpha_vantage |-> None]
    /\ attempts = <<>>
    /\ call = NoCall
    /\ ret = None
    /\ estimates_cache = NoEstimates
    /\ last_fetch = NoEstimates

\* requests served one at a time
Request(r) ==
    \/ \E raw \in RawTickers, force_refresh \in BOOLEAN :
          Call(r, raw, force_refresh)
    \/ FetchReturns(r)
    \/ FetchRaises(r)
    \/ SaveDelete(r)
    \/ SaveValues(r)
    \/ SaveUpsert(r)
    \/ SaveCommit(r)
    \/ SaveDeleteRaises(r)
    \/ SaveUpsertRaises(r)
    \/ SaveCommitRaises(r)
    \/ Return(r)

Next ==
    \/ Request("r1")
    \/ Tick
    \/ Restart

Spec == Init /\ [][Next]_vars

-----------------------------------------------------------------------------
(* Properties of StockDataClient.get_stock_data *)

Done(r) == pc[r] = "done"

NoCredential == api_key = None \/ api_key = Some(<<>>)

HasWarning(r) == "_warning" \in DOMAIN result[r].body[1]

SnapshotKeys == {"ticker", "name", "summary", "earnings", "source", "cached_at"}

\* the persisted part of a response
SnapshotOf(body) == [k \in SnapshotKeys |-> body[k]]

\* the committed snapshot of a ticker, as a response
CommittedSnapshot(ticker) ==
    LET db == [summaries |-> summaries, earnings |-> earnings, tx |-> NoTxn]
    IN  SnapshotOf(format_response(ticker,
                       CHOOSE s \in QuerySummary(db, ticker) : TRUE,
                       QueryEarnings(db, ticker)))

HasCommittedRow(ticker) == \E s \in summaries : s.ticker = ticker

\* C1: a call with force_refresh=false for a ticker whose cached summary is
\* younger than the longest TTL, with the provider configured, is over in its
\* first step: it returns a response, has issued no provider call, and both
\* tables (fetched_at included) and the session's transaction are unchanged.
C1_FreshHitNoUpstreamNoWrite ==
    [][\A r \in Reqs :
          ( /\ pc[r] = "idle"
            /\ pc'[r] # "idle"
            /\ is_configured
            /\ ~args'[r].force_refresh
            /\ CacheAge(Session(r), args'[r].ticker) # None
            /\ CacheAge(Session(r), args'[r].ticker)[1] < MaxTTL )
          => ( /\ pc'[r] = "done"
               /\ result'[r].kind = "ok"
               /\ ~("_warning" \in DOMAIN result'[r].body[1])
               /\ SnapshotOf(result'[r].body[1])
                      = CommittedSnapshot(args'[r].ticker)
               /\ upstream'[r] = 0
               /\ summaries' = summaries
               /\ earnings' = earnings
               /\ txn' = txn )]_vars

C1_Witness ==
    \E r \in Reqs :
        /\ Done(r)
        /\ result[r].path = "hit"
        /\ ~args[r].force_refresh
        /\ result[r].age[1] > 0
        /\ result[r].age[1] < MaxTTL

\* C3: the fresh-cache read returns the snapshot exactly when the age of the
\* cached row is below the longest TTL: every cache hit has age < max TTL,
\* and every call that found a row and went on to fetch found age >= max TTL.
C3_FreshIffBelowMaxTTL ==
    \A r \in Reqs :
        /\ (Done(r) /\ result[r].path = "hit") => result[r].age[1] < MaxTTL
        /\ ( /\ pc[r] = "fetch"
             /\ ~args[r].force_refresh
             /\ args[r].cache_age # None )
           => args[r].cache_age[1] >= MaxTTL

\* C4: a call with force_refresh=true never takes the cache-hit return, and
\* returns cached content only after the provider attempt of that call failed
\* (an unconfigured provider counts as failed), and then with a warning.
C4_ForcedNeverServesCacheUnlessProviderFailed ==
    \A r \in Reqs :
        (Done(r) /\ args[r].force_refresh)
        => /\ result[r].path # "hit"
           /\ result[r].path \in {"stale", "unconfigured"}
              => /\ result[r].cause \in FailKinds \cup {"not_configured"}
                 /\ HasWarning(r)

\* C5: without a credential the provider is never called; the call returns
\* the ticker's cached snapshot whatever its age, with a warning, when a row
\* exists, and raises the not-configured error exactly when none exists.
C5_UnconfiguredServesAnyCache ==
    \A r \in Reqs :
        (Done(r) /\ NoCredential)
        => /\ upstream[r] = 0
           /\ IF HasCommittedRow(args[r].ticker)
              THEN /\ result[r].kind = "ok"
                   /\ HasWarning(r)
                   /\ result[r].body[1]["_warning"].text # ""
                   /\ SnapshotOf(result[r].body[1])
                          = CommittedSnapshot(args[r].ticker)
              ELSE /\ result[r].kind = "error"
                   /\ result[r].category = "NotConfigured"

C5_Witness ==
    \E r \in Reqs :
        /\ Done(r)
        /\ NoCredential
        /\ result[r].kind = "ok"
        /\ result[r].age[1] > MaxTTL

\* C6: when the provider call fails and the ticker has a cached row of any
\* age, the call returns that snapshot as a response, not an error, with a
\* non-empty warning whose hours are the row's age rounded to a tenth.
C6_ProviderFailureServesStale ==
    \A r \in Reqs :
        (Done(r) /\ result[r].cause \in FailKinds
                 /\ HasCommittedRow(args[r].ticker))
        => /\ result[r].kind = "ok"
           /\ SnapshotOf(result[r].body[1]) = CommittedSnapshot(args[r].ticker)
           /\ HasWarning(r)
           /\ result[r].body[1]["_warning"].text # ""
           /\ result[r].body[1]["_warning"].hours # None
           /\ LET tenths == result[r].body[1]["_warning"].hours[1]
                  age == result[r].age[1]
              IN  /\ tenths * 6 - age <= 3
                  /\ age - tenths * 6 <= 3

C6_Witness ==
    \E r \in Reqs :
        /\ Done(r)
        /\ result[r].cause \in FailKinds
        /\ result[r].path = "stale"
        /\ result[r].age[1] > MaxTTL
        /\ result[r].body[1]["_warning"].hours[1] >= 240

\* the error category each upstream failure stands for
FailureCategory(kind) ==
    CASE kind = "http429" -> "RateLimited"
      [] kind \in {"http404", "status_not_ok"} -> "NotFound"
      [] kind = "http401" -> "Unauthorized"
      [] OTHER -> "UpstreamUnavailable"

\* C7: when the provider fails and the ticker has no cached row, the raised
\* error's category is the one of the upstream failure.
C7_ErrorCategoryMatchesFailure ==
    \A r \in Reqs :
        (Done(r) /\ result[r].cause \in FailKinds
                 /\ ~HasCommittedRow(args[r].ticker))
        => /\ result[r].kind = "error"
           /\ result[r].category = FailureCategory(result[r].cause)

ErrorCategories ==
    {"RateLimited", "NotFound", "Unauthorized", "UpstreamUnavailable",
     "NotConfigured"}

\* C8: a call ends with the complete committed snapshot without warning, the
\* complete committed snapshot with a warning, or an error of a specific
\* category; without a warning only from a cache hit on a row younger than
\* the longest TTL or from the call's own committed write.
C8_SnapshotOrMarkedStaleOrError ==
    \A r \in Reqs :
        Done(r)
        => \/ /\ result[r].kind = "ok"
              /\ HasCommittedRow(args[r].ticker)
              /\ SnapshotOf(result[r].body[1])
                     = CommittedSnapshot(args[r].ticker)
              /\ IF HasWarning(r)
                 THEN result[r].path \in {"stale", "unconfigured"}
                 ELSE \/ result[r].path = "fetched"
                      \/ /\ result[r].path = "hit"
                         /\ result[r].age[1] < MaxTTL
           \/ /\ result[r].kind = "error"
              /\ result[r].category \in ErrorCategories

-----------------------------------------------------------------------------
(* Two calls of get_stock_data in immediate succession: the clock stands
   still and nothing else writes between the first call ("r1") and the
   second ("r2") *)

\* the tables after _save_polygon_data stored payload at time 0
SavedTables(ticker, payload) ==
    [summaries |-> {[SummaryValues(ticker, payload) EXCEPT !.fetched_at = 0]},
     earnings |-> SeqToBag(NewEarningsRecords(ticker, payload))]

EmptyTables == [summaries |-> {}, earnings |-> EmptyBag]

InitTwice ==
    /\ now \in {0, Minutes(1), MaxTTL, MaxTTL + Minutes(1)}
    /\ api_key \in ApiKeys
    /\ \E tables \in {EmptyTables}
                      \cup UNION { {SavedTables(t, p) :
                                       p \in ProviderPayloads(t)} :
                                   t \in KnownTickers } :
          /\ summaries = tables.summaries
          /\ earnings = tables.earnings
    /\ pc = [r \in Reqs |-> "idle"]
    /\ args = [r \in Reqs |-> NoArgs]
    /\ data = [r \in Reqs |-> None]
    /\ txn = [r \in Reqs |-> NoTxn]
    /\ session = [r \in Reqs |-> "ok"]
    /\ upstream = [r \in Reqs |-> 0]
    /\ result = [r \in Reqs |-> NoResult]
    /\ env = [finnhub |-> None, alpha_vantage |-> None]
    /\ attempts = <<>>
    /\ call = NoCall
    /\ ret = None
    /\ estimates_cache = NoEstimates
    /\ last_fetch = NoEstimates

\* the steps of a call after its first
Steps(r) ==
    \/ FetchReturns(r)
    \/ FetchRaises(r)
    \/ SaveDelete(r)
    \/ SaveValues(r)
    \/ SaveUpsert(r)
    \/ SaveCommit(r)
    \/ SaveDeleteRaises(r)
    \/ SaveUpsertRaises(r)
    \/ SaveCommitRaises(r)

FirstCall ==
    /\ pc["r2"] = "idle"
    /\ \E raw \in RawTickers : Call("r1", raw, FALSE)

\* the second call, for the same ticker, once the first has ended
SecondCall ==
    /\ pc["r1"] = "done"
    /\ \E raw \in RawTickers :
          /\ NormalizeTicker(raw) = args["r1"].ticker
          /\ Call("r2", raw, FALSE)

NextTwice ==
    \/ FirstCall
    \/ Steps("r1")
    \/ SecondCall
    \/ Steps("r2")

SpecTwice == InitTwice /\ [][NextTwice]_vars

\* C2: when the first of two calls in immediate succession with
\* force_refresh=false returned a snapshot without the provider failing, the
\* second call returns the identical output and issues no provider call.
C2_SuccessiveCallsIdentical ==
    ( /\ Done("r1")
      /\ Done("r2")
      /\ result["r1"].kind = "ok"
      /\ result["r1"].path \in {"hit", "fetched"} )
    => /\ result["r2"].kind = "ok"
       /\ result["r2"].body = result["r1"].body
       /\ upstream["r2"] = 0

-----------------------------------------------------------------------------
(* The multi-source waterfall: YFinanceClient.get_stock_data.  Amounts of
   the fallback sources are in cents. *)

CACHE_HOURS == 24

\* range(8) of _save_fallback_data
SyntheticQuarters == 8

\* YFinanceClient._is_cache_fresh
is_cache_fresh(fetched_at) == now - fetched_at < Hours(CACHE_HOURS)

EnvKeys == {None, Some(<<>>), Some(<<"k">>)}

\* AlphaVantageClient.is_configured
alpha_vantage_is_configured == env.alpha_vantage # None

\* finnhub_client.is_configured of the waterfall
finnhub_is_configured == env.finnhub # None /\ env.finnhub[1] # <<>>

\* what Yahoo Finance delivers for a ticker it knows: info with a market
\* price, with or without earnings dates and the other fields
YahooPayloads(ticker) ==
    { [name |-> <<"Acme Inc.">>, market_cap |-> Some(900),
       current_price |-> Some(4000), pe_ratio |-> Some(5),
       next_earnings_date |-> None,
       earnings |-> << [EarningsLine("2024-06-30", "Q2", Some(200), Some(70))
                          EXCEPT !.pe_ratio = Some(20), !.price = Some(4000)],
                       [EarningsLine("2024-03-31", "Q1", Some(200), None)
                          EXCEPT !.price = Some(3900)] >>],
      [name |-> ticker, market_cap |-> None, current_price |-> Some(4000),
       pe_ratio |-> None, next_earnings_date |-> None, earnings |-> <<>>] }

\* the dict of a fallback source: every field found, or only the name
FallbackPayloads(ticker) ==
    { [name |-> <<"Acme Inc.">>, market_cap |-> Some(900),
       pe_ratio |-> Some(5), current_price |-> Some(4000),
       next_earnings_date |-> None],
      [name |-> ticker, market_cap |-> None, pe_ratio |-> None,
       current_price |-> None, next_earnings_date |-> None] }

\* AlphaVantageClient.get_stock_data: the Optional dict it returns.  It
\* returns None without a request when the key is empty, and None for every
\* failure of a request; it never raises.
alpha_vantage_get_stock_data(ticker) ==
    IF env.alpha_vantage = None \/ env.alpha_vantage[1] = <<>>
    THEN {None}
    ELSE {None} \cup
         (IF ticker \in KnownTickers
          THEN {Some(d) : d \in FallbackPayloads(ticker)}
          ELSE {})

\* finnhub_client.get_stock_data of the waterfall: an Optional dict
finnhub_get_stock_data(ticker) ==
    {None} \cup
    (IF ticker \in KnownTickers
     THEN {Some(d) : d \in FallbackPayloads(ticker)}
     ELSE {})

\* Python truth value of an Optional dict
Truthy(d) == d # None

\* the chain of get_stock_data
SourceOrder == <<"Yahoo", "Finnhub", "AlphaVantage", "Mock">>

\* the chain with Alpha Vantage tried before Finnhub
NextSource_alpha_vantage_first(source) ==
    CASE source = "Yahoo" ->
            IF alpha_vantage_is_configured THEN "AlphaVantage"
            ELSE IF finnhub_is_configured THEN "Finnhub"
            ELSE "Mock"
      [] source = "AlphaVantage" ->
            IF finnhub_is_configured THEN "Finnhub" ELSE "Mock"
      [] source = "Finnhub" -> "Mock"

\* the source get_stock_data turns to after a source did not end the call
NextSource(source) ==
    CASE source = "Yahoo" ->
            IF finnhub_is_configured THEN "Finnhub"
            ELSE IF alpha_vantage_is_configured THEN "AlphaVantage"
            ELSE "Mock"
      [] source = "Finnhub" ->
            IF alpha_vantage_is_configured THEN "AlphaVantage" ELSE "Mock"
      [] source = "AlphaVantage" -> "Mock"

\* YFinanceClient._format_response
YFinance_format_response(ticker, summary, rows) ==
    [ticker |-> ticker,
     name |-> summary.name,
     summary |-> [ticker |-> ticker, name |-> summary.name,
                  market_cap |-> summary.market_cap,
                  pe_ratio |-> summary.pe_ratio,
                  next_earnings_date |->
                      IF summary.next_earnings_date # None
                      THEN Some(DateIsoFormat(summary.next_earnings_date[1]))
                      ELSE None,
                  current_price |-> summary.current_price],
     earnings |-> [i \in 1..Len(rows) |->
                      [fiscal_date |-> DateIsoFormat(rows[i].fiscal_date),
                       period |-> rows[i].period,
                       reported_eps |-> rows[i].reported_eps,
                       estimated_eps |-> rows[i].estimated_eps,
                       surprise_pct |-> rows[i].surprise_pct,
                       revenue |-> rows[i].revenue,
                       free_cash_flow |-> rows[i].free_cash_flow,
                       pe_ratio |-> rows[i].pe_ratio,
                       price |-> rows[i].price]]]

\* the StockSummary row _parse_summary and _save_fallback_data create
WaterfallSummary(ticker, d) ==
    [ticker |-> ticker, name |-> d.name, market_cap |-> d.market_cap,
     current_price |-> d.current_price, pe_ratio |-> d.pe_ratio,
     next_earnings_date |-> d.next_earnings_date, fetched_at |-> now]

\* the rows _parse_earnings adds
YahooRecords(ticker, payload) ==
    [i \in 1..Len(payload.earnings) |->
        [ticker |-> ticker,
         fiscal_date |-> ParseDate(payload.earnings[i].fiscal_date),
         period |-> payload.earnings[i].period,
         reported_eps |-> payload.earnings[i].reported_eps,
         estimated_eps |-> payload.earnings[i].estimated_eps,
         surprise_pct |-> payload.earnings[i].surprise_pct,
         revenue |-> payload.earnings[i].revenue,
         free_cash_flow |-> payload.earnings[i].free_cash_flow,
         pe_ratio |-> payload.earnings[i].pe_ratio,
         price |-> payload.earnings[i].price]]

\* _get_quarter_end(now - 90 days * (i + 1)) as a calendar date
get_quarter_end(i) == 4 - i

\* _get_period(quarter_end)
get_period(d) ==
    CASE d % 4 = 0 -> "Q2"
      [] d % 4 = 1 -> "Q3"
      [] d % 4 = 2 -> "Q4"
      [] d % 4 = 3 -> "Q1"

\* the placeholder rows of _save_fallback_data; variance and noise are the
\* two random factors in percent, drawn once for the rows of a save
SyntheticRecords(ticker, d, variance, noise) ==
    LET price == IF d.current_price # None /\ d.current_price[1] # 0
                 THEN d.current_price[1] ELSE 10000
        pe == IF d.pe_ratio # None /\ d.pe_ratio[1] # 0
              THEN d.pe_ratio[1] ELSE 20
        estimated_eps == IF pe > 0 THEN price \div pe ELSE 100
    IN  [k \in 1..SyntheticQuarters |->
            LET i == k - 1
                reported_eps ==
                    (estimated_eps * variance * (SyntheticQuarters - i))
                        \div (100 * SyntheticQuarters)
            IN  [ticker |-> ticker,
                 fiscal_date |-> get_quarter_end(i),
                 period |-> get_period(get_quarter_end(i)),
                 reported_eps |-> Some(reported_eps),
                 estimated_eps |-> Some((reported_eps * 95) \div 100),
                 surprise_pct |-> Some(526),
                 revenue |-> None,
                 free_cash_flow |-> None,
                 pe_ratio |-> d.pe_ratio,
                 price |-> Some((price * noise) \div 100)]]

RandomFactors == [variance : {80, 120}, noise : {85, 115}]

\* the response of mock_client.get_stock_data(ticker, db)
MockResponse(ticker) ==
    [ticker |-> ticker, name |-> <<"Mock">>,
     summary |-> [ticker |-> ticker, name |-> <<"Mock">>,
                  market_cap |-> Some(900), pe_ratio |-> Some(5),
                  next_earnings_date |-> None, current_price |-> Some(4000)],
     earnings |-> <<>>,
     source |-> "Mock Data"]

WithoutTicker(rows, ticker) == {s \in rows : s.ticker # ticker}

\* an entry of the log of attempts
Attempt(source, outcome) == [source |-> source, outcome |-> outcome]

SetLastOutcome(log, outcome) ==
    [log EXCEPT ![Len(log)].outcome = outcome]

\* lines 38-52: normalize and cache check
WfCall(r, raw) ==
    /\ pc[r] = "idle"
    /\ LET ticker == NormalizeTicker(raw)
           db == Session(r)
           cached == QuerySummary(db, ticker)
       IN  /\ args' = [args EXCEPT ![r] =
                 [raw |-> raw, ticker |-> ticker, force_refresh |-> FALSE,
                  cache_age |-> CacheAge(db, ticker),
                         summary_values |-> None]]
           /\ IF cached # {}
                 /\ is_cache_fresh((CHOOSE c \in cached : TRUE).fetched_at)
              THEN Finish(r, Returned("hit",
                       YFinance_format_response(ticker,
                           CHOOSE c \in cached : TRUE,
                           QueryEarnings(db, ticker)),
                       "none", CacheAge(db, ticker)))
              ELSE /\ pc' = [pc EXCEPT ![r] = "Yahoo"]
                   /\ UNCHANGED result
    /\ attempts' = <<>>
    /\ upstream' = [upstream EXCEPT ![r] = 0]
    /\ UNCHANGED <<now, api_key, summaries, earnings, data, txn, session, env>>
    /\ UNCHANGED <<call, ret, estimates_cache, last_fetch>>

\* lines 58-60, _fetch_and_cache: Yahoo delivers; _parse_earnings replaces
\* the ticker's earnings rows when earnings dates came, _parse_summary
\* replaces its summary row
WfYahooReturns(r) ==
    /\ pc[r] = "Yahoo"
    /\ args[r].ticker \in KnownTickers
    /\ \E payload \in YahooPayloads(args[r].ticker) :
         LET ticker == args[r].ticker
             summary == WaterfallSummary(ticker, payload)
             rows == IF payload.earnings # <<>>
                     THEN (earnings (-) RowsOf(earnings, ticker))
                              (+) SeqToBag(YahooRecords(ticker, payload))
                     ELSE earnings
         IN  /\ earnings' = rows
             /\ summaries' = WithoutTicker(summaries, ticker) \cup {summary}
             /\ Finish(r, Returned("Yahoo",
                      YFinance_format_response(ticker, summary,
                          SortDesc(RowsOf(rows, ticker))),
                      "none", None))
    /\ attempts' = Append(attempts, Attempt("Yahoo", "saved"))
    /\ upstream' = [upstream EXCEPT ![r] = @ + 1]
    /\ UNCHANGED <<now, api_key, args, data, txn, session, env>>
    /\ UNCHANGED <<call, ret, estimates_cache, last_fetch>>

\* lines 61-63: _fetch_and_cache raises
WfYahooRaises(r) ==
    /\ pc[r] = "Yahoo"
    /\ attempts' = Append(attempts, Attempt("Yahoo", "raised"))
    /\ upstream' = [upstream EXCEPT ![r] = @ + 1]
    /\ pc' = [pc EXCEPT ![r] = NextSource("Yahoo")]
    /\ UNCHANGED <<now, api_key, summaries, earnings, args, data, txn,
                   session, result, env>>
    /\ UNCHANGED <<call, ret, estimates_cache, last_fetch>>

\* a fallback source returned d (lines 69-71, 82-84)
FallbackReturned(r, source, d) ==
    IF Truthy(d)
    THEN /\ data' = [data EXCEPT ![r] = d]
         /\ attempts' = Append(attempts, Attempt(source, "data"))
         /\ pc' = [pc EXCEPT ![r] = "save_fallback"]
    ELSE /\ attempts' = Append(attempts, Attempt(source, "none"))
         /\ pc' = [pc EXCEPT ![r] = NextSource(source)]
         /\ UNCHANGED data

\* lines 66-71: finnhub_client.get_stock_data(ticker) returns
WfFinnhubReturns(r) ==
    /\ pc[r] = "Finnhub"
    /\ \E d \in finnhub_get_stock_data(args[r].ticker) :
          FallbackReturned(r, "Finnhub", d)
    /\ upstream' = [upstream EXCEPT ![r] = @ + 1]
    /\ UNCHANGED <<now, api_key, summaries, earnings, args, txn, session,
                   result, env>>
    /\ UNCHANGED <<call, ret, estimates_cache, last_fetch>>

\* lines 72-74: finnhub_client.get_stock_data(ticker) raises
WfFinnhubRaises(r) ==
    /\ pc[r] = "Finnhub"
    /\ attempts' = Append(attempts, Attempt("Finnhub", "raised"))
    /\ upstream' = [upstream EXCEPT ![r] = @ + 1]
    /\ pc' = [pc EXCEPT ![r] = NextSource("Finnhub")]
    /\ UNCHANGED <<now, api_key, summaries, earnings, args, data, txn,
                   session, result, env>>
    /\ UNCHANGED <<call, ret, estimates_cache, last_fetch>>

\* lines 79-84: alpha_vantage_client.get_stock_data(ticker) returns
WfAlphaVantageReturns(r) ==
    /\ pc[r] = "AlphaVantage"
    /\ \E d \in alpha_vantage_get_stock_data(args[r].ticker) :
          FallbackReturned(r, "AlphaVantage", d)
    /\ upstream' = [upstream EXCEPT ![r] =
                       IF env.alpha_vantage[1] = <<>> THEN @ ELSE @ + 1]
    /\ UNCHANGED <<now, api_key, summaries, earnings, args, txn, session,
                   result, env>>
    /\ UNCHANGED <<call, ret, estimates_cache, last_fetch>>

\* _save_fallback_data: replace the ticker's rows by the source's summary
\* and the placeholder earnings, commit, format
WfSaveFallback(r) ==
    /\ pc[r] = "save_fallback"
    /\ \E f \in RandomFactors :
         LET ticker == args[r].ticker
             summary == WaterfallSummary(ticker, data[r][1])
             rows == (earnings (-) RowsOf(earnings, ticker))
                        (+) SeqToBag(SyntheticRecords(ticker, data[r][1],
                                                      f.variance, f.noise))
         IN  /\ earnings' = rows
             /\ summaries' = WithoutTicker(summaries, ticker) \cup {summary}
             /\ Finish(r, Returned(attempts[Len(attempts)].source,
                      YFinance_format_response(ticker, summary,
                          SortDesc(RowsOf(rows, ticker))),
                      "none", None))
    /\ attempts' = SetLastOutcome(attempts, "saved")
    /\ UNCHANGED <<now, api_key, args, data, txn, session, upstream, env>>
    /\ UNCHANGED <<call, ret, estimates_cache, last_fetch>>

\* _save_fallback_data raises a database error; the except clause of the
\* source (lines 72-74, 85-87) catches it and the chain goes on
WfSaveFallbackRaises(r) ==
    /\ pc[r] = "save_fallback"
    /\ attempts' = SetLastOutcome(attempts, "unsaved")
    /\ pc' = [pc EXCEPT ![r] = NextSource(attempts[Len(attempts)].source)]
    /\ UNCHANGED <<now, api_key, summaries, earnings, args, data, txn,
                   session, upstream, result, env>>
    /\ UNCHANGED <<call, ret, estimates_cache, last_fetch>>

\* lines 92-94: mock data
WfMock(r) ==
    /\ pc[r] = "Mock"
    /\ attempts' = Append(attempts, Attempt("Mock", "data"))
    /\ Finish(r, Returned("Mock", MockResponse(args[r].ticker), "none", None))
    /\ UNCHANGED <<now, api_key, summaries, earnings, args, data, txn,
                   session, upstream, env>>
    /\ UNCHANGED <<call, ret, estimates_cache, last_fetch>>

Waterfall(r) ==
    \/ \E raw \in RawTickers : WfCall(r, raw)
    \/ WfYahooReturns(r)
    \/ WfYahooRaises(r)
    \/ WfFinnhubReturns(r)
    \/ WfFinnhubRaises(r)
    \/ WfAlphaVantageReturns(r)
    \/ WfSaveFallback(r)
    \/ WfSaveFallbackRaises(r)
    \/ WfMock(r)
    \/ Return(r)

InitWaterfall ==
    /\ now = 0
    /\ api_key = None
    /\ summaries = {}
    /\ earnings = EmptyBag
    /\ pc = [r \in Reqs |-> "idle"]
    /\ args = [r \in Reqs |-> NoArgs]
    /\ data = [r \in Reqs |-> None]
    /\ txn = [r \in Reqs |-> NoTxn]
    /\ session = [r \in Reqs |-> "ok"]
    /\ upstream = [r \in Reqs |-> 0]
    /\ result = [r \in Reqs |-> NoResult]
    /\ env \in [finnhub : EnvKeys, alpha_vantage : EnvKeys]
    /\ attempts = <<>>
    /\ call = NoCall
    /\ ret = None
    /\ estimates_cache = NoEstimates
    /\ last_fetch = NoEstimates

NextWaterfall ==
    \/ Waterfall("r1")
    \/ Tick

SpecWaterfall == InitWaterfall /\ [][NextWaterfall]_vars

-----------------------------------------------------------------------------
(* Properties of the waterfall *)

Rank(source) == CHOOSE i \in 1..Len(SourceOrder) : SourceOrder[i] = source

\* the sources were tried in the order of the chain, the primary first
InChainOrder ==
    /\ attempts # <<>> => attempts[1].source = "Yahoo"
    /\ \A i \in 2..Len(attempts) :
          Rank(attempts[i - 1].source) < Rank(attempts[i].source)

ReturnedData(i) == attempts[i].outcome \in {"data", "saved", "unsaved"}

\* the response of request r carries the summary row now stored for its
\* ticker
ReturnsStoredSummary(r) ==
    /\ result[r].kind = "ok"
    /\ \E row \in summaries :
          /\ row.ticker = args[r].ticker
          /\ result[r].body[1].summary
                 = YFinance_format_response(row.ticker, row, <<>>).summary

C10_SourceMarkerNamesFallback ==
    \A r \in Reqs :
        (Done(r) /\ result[r].path \in {"Finnhub", "AlphaVantage"})
        => /\ "source" \in DOMAIN result[r].body[1]
           /\ result[r].body[1]["source"] = result[r].path
           /\ attempts[1].source = "Yahoo"
           /\ Cardinality({i \in 1..Len(attempts) :
                              attempts[i].source = "Yahoo"}) = 1

-----------------------------------------------------------------------------
\* FinnhubEstimatesClient.merge_with_polygon: the estimates of the
\* supplemental provider merged into the earnings lines of the primary one.
\* Amounts are in cents, percentages in hundredths of a percent.

\* the longest primary list and the longest supplemental list that are tried
MaxPrimary == 2
MaxSupplemental == 2

\* every sequence over a set with at most n elements
SeqsUpTo(S, n) == UNION { [1..k -> S] : k \in 0..n }

\* lines _build_earnings_from_financials can hand over (it skips a filing
\* without a fiscal date), with and without an estimate and a surprise
PrimaryLines ==
    { [EarningsLine(d, "Q2", Some(150), Some(70))
          EXCEPT !.estimated_eps = e, !.surprise_pct = s] :
        d \in {"2024-06-30", "2024-03-31"},
        e \in {None, Some(130)}, s \in {None, Some(50)} }

\* lines get_earnings_estimates can hand over: the period of an item may be
\* missing (fiscal_date ""), and so may its estimate and its surprise
SupplementalLines ==
    { [fiscal_date |-> d, reported_eps |-> Some(145), estimated_eps |-> v[1],
       surprise_pct |-> v[2], period |-> d] :
        d \in {"", "2024-06-30"},
        v \in {<<None, None>>, <<Some(140), Some(710)>>, <<Some(0), None>>} }

\* finnhub_by_date.get(date_key): a later line replaces an earlier one with
\* the same date, a line without a date is not entered
finnhub_by_date(finnhub_estimates, date_key) ==
    LET at == {j \in 1..Len(finnhub_estimates) :
                  /\ finnhub_estimates[j].fiscal_date # ""
                  /\ finnhub_estimates[j].fiscal_date = date_key}
    IN  IF at = {} THEN None ELSE Some(finnhub_estimates[SetMax(at)])

\* the estimate is written over the primary one whether or not it is set
merged_record_overwrite(poly, finnhub_estimates) ==
    LET finnhub == IF poly.fiscal_date # ""
                   THEN finnhub_by_date(finnhub_estimates, poly.fiscal_date)
                   ELSE None
    IN  IF finnhub = None THEN poly
        ELSE LET f == finnhub[1]
                 with_estimate ==
                     IF f.estimated_eps # None
                     THEN [poly EXCEPT !.estimated_eps = f.estimated_eps]
                     ELSE poly
             IN  IF f.surprise_pct # None
                 THEN [with_estimate EXCEPT !.surprise_pct = f.surprise_pct]
                 ELSE with_estimate

\* one pass of the merge loop: the copy of a primary line after the
\* supplemental line at its date, if any, is applied
merged_record(poly, finnhub_estimates) ==
    LET finnhub == IF poly.fiscal_date # ""
                   THEN finnhub_by_date(finnhub_estimates, poly.fiscal_date)
                   ELSE None
    IN  IF finnhub = None THEN poly
        ELSE LET f == finnhub[1]
                 with_estimate ==
                     IF f.estimated_eps # None /\ poly.estimated_eps = None
                     THEN [poly EXCEPT !.estimated_eps = f.estimated_eps]
                     ELSE poly
             IN  IF f.surprise_pct # None
                 THEN [with_estimate EXCEPT !.surprise_pct = f.surprise_pct]
                 ELSE with_estimate

\* the merge writes into the primary lines themselves instead of copies
merge_with_polygon_in_place(polygon_earnings, finnhub_estimates) ==
    IF finnhub_estimates = None \/ finnhub_estimates = Some(<<>>)
    THEN [returned |-> polygon_earnings, polygon_earnings |-> polygon_earnings]
    ELSE LET merged == [i \in 1..Len(polygon_earnings) |->
                           merged_record(polygon_earnings[i],
                                         finnhub_estimates[1])]
         IN  [returned |-> merged, polygon_earnings |-> merged]

\* merge_with_polygon: the list it returns, and the primary list as the
\* caller finds it after the call
merge_with_polygon(polygon_earnings, finnhub_estimates) ==
    IF finnhub_estimates = None \/ finnhub_estimates = Some(<<>>)
    THEN [returned |-> polygon_earnings, polygon_earnings |-> polygon_earnings]
    ELSE [returned |-> [i \in 1..Len(polygon_earnings) |->
                           merged_record(polygon_earnings[i],
                                         finnhub_estimates[1])],
          polygon_earnings |-> polygon_earnings]

\* a caller hands a primary list and the supplemental data to the merge
MergeCall ==
    /\ call = NoCall
    /\ \E p \in SeqsUpTo(PrimaryLines, MaxPrimary),
          f \in {None} \cup {Some(e) :
                       e \in SeqsUpTo(SupplementalLines, MaxSupplemental)} :
          call' = [fn |-> "merge_with_polygon", polygon_earnings |-> p,
                   finnhub_estimates |-> f, given |-> p]
    /\ ret' = None
    /\ UNCHANGED <<now, api_key, summaries, earnings, pc, args, data, txn,
                   session, upstream, result, env, attempts,
                   estimates_cache, last_fetch>>

\* the merge runs and returns
MergeReturns ==
    /\ call.fn = "merge_with_polygon"
    /\ ret = None
    /\ LET out == merge_with_polygon(call.polygon_earnings,
                                     call.finnhub_estimates)
       IN  /\ ret' = Some(out.returned)
           /\ call' = [call EXCEPT !.polygon_earnings = out.polygon_earnings]
    /\ UNCHANGED <<now, api_key, summaries, earnings, pc, args, data, txn,
                   session, upstream, result, env, attempts,
                   estimates_cache, last_fetch>>

NextMerge == MergeCall \/ MergeReturns

SpecMerge == Init /\ [][NextMerge]_vars

\* the merge has returned
Merged == call.fn = "merge_with_polygon" /\ ret # None

\* the supplemental lines that carry the date of a primary line
SameDate(poly) ==
    IF call.finnhub_estimates = None THEN {}
    ELSE {j \in 1..Len(call.finnhub_estimates[1]) :
             call.finnhub_estimates[1][j].fiscal_date = poly.fiscal_date}

\* what the claim asks of the merged line of a primary line and one
\* supplemental line at its date
MergedFrom(poly, f, merged) ==
    /\ merged.estimated_eps =
          IF poly.estimated_eps = None THEN f.estimated_eps
          ELSE poly.estimated_eps
    /\ f.surprise_pct # None => merged.surprise_pct = f.surprise_pct

\* C11: every primary line that has a supplemental line at the same
\* fiscal_date takes the estimate of that supplemental line only if its own
\* is unset, and takes its surprise whenever that one is present, whether or
\* not it had one.  The supplemental line at a date is the one the lookup
\* holds: the last in the list when several carry the date.
C11_MergedFromLastSameDateLine ==
    Merged =>
        \A i \in 1..Len(call.given) :
            LET at == SameDate(call.given[i])
            IN  at # {} =>
                  MergedFrom(call.given[i],
                             call.finnhub_estimates[1][SetMax(at)], ret[1][i])

\* a primary line without estimate or surprise has been merged with a single
\* supplemental line at its date that has both, and one with an estimate of
\* its own has kept it
C11_Witness ==
    /\ Merged
    /\ Len(call.given) = 2
    /\ call.given[1].estimated_eps = None
    /\ call.given[2].estimated_eps = Some(130)
    /\ call.given[2].surprise_pct = Some(50)
    /\ \A i \in 1..2 : Cardinality(SameDate(call.given[i])) = 1
    /\ call.finnhub_estimates[1][1].estimated_eps = Some(140)
    /\ ret[1][1].estimated_eps = Some(140)
    /\ ret[1][1].surprise_pct = Some(710)
    /\ ret[1][2].estimated_eps = Some(130)
    /\ ret[1][2].surprise_pct = Some(710)

\* C12: the merge changes no field of a line other than estimated_eps and
\* surprise_pct (reported_eps in particular), returns as many lines as the
\* primary list has and in the same order, leaves the lines it was given as
\* they were, and returns the primary list as it is when the supplemental
\* data is None or empty.
C12_MergeFrame ==
    Merged =>
        /\ Len(ret[1]) = Len(call.given)
        /\ \A i \in 1..Len(call.given) :
              \A k \in DOMAIN call.given[i] \ {"estimated_eps", "surprise_pct"} :
                  ret[1][i][k] = call.given[i][k]
        /\ call.polygon_earnings = call.given
        /\ call.finnhub_estimates \in {None, Some(<<>>)} => ret[1] = call.given

\* two primary lines with different dates have been merged with supplemental
\* data that changed one of them
C12_Witness ==
    /\ Merged
    /\ Len(call.given) = 2
    /\ call.given[1].fiscal_date # call.given[2].fiscal_date
    /\ call.finnhub_estimates \notin {None, Some(<<>>)}
    /\ ret[1] # call.given
    /\ ret[1][2].reported_eps = Some(150)

-----------------------------------------------------------------------------
\* PolygonClient._calculate_pe: the summary P/E from the latest close and the
\* earnings lines, newest first.  Prices and EPS are in cents, the ratio is in
\* hundredths.

\* the longest earnings list that is tried
MaxQuarters == 5

\* round(n / d, 2) in hundredths: the nearest hundredth, and either
\* neighbour when the quotient of the floats lies halfway
Round2(n, d) ==
    LET q == (100 * n) \div d
        r == (100 * n) % d
    IN  IF 2 * r < d THEN {q}
        ELSE IF 2 * r > d THEN {q + 1}
        ELSE {q, q + 1}

\* the first n elements of a list, list[:n]
Take(list, n) == SubSeq(list, 1, IF Len(list) < n THEN Len(list) ELSE n)

\* the sum of f over a set of indexes
RECURSIVE SumOver(_, _)
SumOver(f, I) ==
    IF I = {} THEN 0
    ELSE LET i == CHOOSE x \in I : TRUE IN f[i] + SumOver(f, I \ {i})

\* the values _calculate_pe can return for a close price and earnings lines
calculate_pe(price, records) ==
    IF price = None \/ price = Some(0) THEN {None}
    ELSE IF Len(records) >= 4
    THEN LET recent == Take(records, 4)
             counted == {i \in 1..4 : /\ recent[i].reported_eps # None
                                      /\ recent[i].reported_eps[1] > 0}
             total_eps == SumOver([i \in 1..4 |->
                                      IF i \in counted
                                      THEN recent[i].reported_eps[1] ELSE 0],
                                  1..4)
         IN  IF Cardinality(counted) >= 3 /\ total_eps > 0
             THEN {Some(v) : v \in Round2(price[1], total_eps)}
             ELSE {None}
    ELSE {None}

\* reported EPS values of a quarter: missing, zero, a loss, two profits
EpsValues == {None, Some(0), Some(-20), Some(50), Some(60)}

\* the earnings lines of a list of EPS values, newest first
QuarterLines(eps) ==
    [i \in 1..Len(eps) |->
        EarningsLine(DateStrings[Len(DateStrings) + 1 - i], "Q1", eps[i], None)]

\* get_stock_data hands the previous close and the earnings it built to
\* _calculate_pe
CalculatePECall ==
    /\ call = NoCall
    /\ \E price \in {None, Some(3000)}, eps \in SeqsUpTo(EpsValues, MaxQuarters) :
          call' = [fn |-> "_calculate_pe", price |-> price,
                   earnings |-> QuarterLines(eps)]
    /\ ret' = None
    /\ UNCHANGED <<now, api_key, summaries, earnings, pc, args, data, txn,
                   session, upstream, result, env, attempts,
                   estimates_cache, last_fetch>>

\* _calculate_pe returns
CalculatePEReturns ==
    /\ call.fn = "_calculate_pe"
    /\ ret = None
    /\ \E pe \in calculate_pe(call.price, call.earnings) : ret' = Some(pe)
    /\ UNCHANGED <<now, api_key, summaries, earnings, pc, args, data, txn,
                   session, upstream, result, env, attempts, call,
                   estimates_cache, last_fetch>>

NextPE == CalculatePECall \/ CalculatePEReturns

SpecPE == Init /\ [][NextPE]_vars

\* C16: the P/E is the latest close divided by the sum of reported_eps over
\* the most recent 4 quarters, computed whenever at least 3 of those quarters
\* have a positive EPS, also when fewer than 4 quarters are reported; with
\* fewer than 3 positive quarters or no close price it is None.
C16_PEFromThreePositiveQuarters ==
    (call.fn = "_calculate_pe" /\ ret # None) =>
        LET recent == Take(call.earnings, 4)
            reported == {i \in 1..Len(recent) : recent[i].reported_eps # None}
            positive == {i \in reported : recent[i].reported_eps[1] > 0}
            ttm == SumOver([i \in 1..Len(recent) |->
                               IF i \in reported
                               THEN recent[i].reported_eps[1] ELSE 0],
                           1..Len(recent))
        IN  IF call.price # None /\ Cardinality(positive) >= 3
            THEN /\ ret[1] # None
                 /\ ttm > 0 => ret[1][1] \in Round2(call.price[1], ttm)
            ELSE ret[1] = None

-----------------------------------------------------------------------------
\* Failures of the persistence write inside get_stock_data.

\* C17: when the write of _save_polygon_data fails after the provider fetch
\* succeeded, the call ends with an UpstreamUnavailable error after exactly
\* one provider call, whether or not an older row is cached; it never ends
\* with a response.
C17_PersistFailureSurfaces ==
    \A r \in Reqs :
        (Done(r) /\ result[r].cause = "db") =>
            /\ result[r].kind = "error"
            /\ result[r].category = "UpstreamUnavailable"
            /\ upstream[r] = 1

-----------------------------------------------------------------------------
\* The supplemental estimates next to get_stock_data: the module-level
\* FinnhubEstimatesClient reads FINNHUB_API_KEY when it is constructed.

\* FinnhubEstimatesClient.is_configured
finnhub_estimates_is_configured == env.finnhub # None /\ env.finnhub[1] # <<>>

\* the estimates the supplemental provider holds for a ticker
FinnhubEstimates(ticker) ==
    << [fiscal_date |-> "2024-06-30", reported_eps |-> Some(2),
        estimated_eps |-> Some(140), surprise_pct |-> Some(710),
        period |-> "2024-06-30"] >>

\* what get_earnings_estimates can return: None when unconfigured, rate
\* limited or failing, the provider's lines otherwise
get_earnings_estimates(ticker) ==
    IF ~finnhub_estimates_is_configured THEN {None}
    ELSE {None, Some(FinnhubEstimates(ticker))}

\* the service starts with the credential of the supplemental provider set
InitEstimates ==
    /\ now = 0
    /\ api_key \in ApiKeys
    /\ summaries = {}
    /\ earnings = EmptyBag
    /\ pc = [r \in Reqs |-> "idle"]
    /\ args = [r \in Reqs |-> NoArgs]
    /\ data = [r \in Reqs |-> None]
    /\ txn = [r \in Reqs |-> NoTxn]
    /\ session = [r \in Reqs |-> "ok"]
    /\ upstream = [r \in Reqs |-> 0]
    /\ result = [r \in Reqs |-> NoResult]
    /\ env = [finnhub |-> Some(<<"k">>), alpha_vantage |-> None]
    /\ attempts = <<>>
    /\ call = NoCall
    /\ ret = None
    /\ estimates_cache = NoEstimates
    /\ last_fetch = NoEstimates

SpecEstimates == InitEstimates /\ [][Next]_vars

\* C20: when a call has fetched from the primary provider and persisted, the
\* persisted earnings are the merged ones: every persisted line of the ticker
\* whose fiscal date has an estimate at the supplemental provider carries
\* that estimate in estimated_eps and its surprise in surprise_pct.
C20_PersistedEarningsAreMerged ==
    \A r \in Reqs :
        (Done(r) /\ result[r].path = "fetched") =>
            \A e \in get_earnings_estimates(args[r].ticker) :
                e # None =>
                    \A j \in 1..Len(e[1]) :
                    \A row \in BagToSet(RowsOf(earnings, args[r].ticker)) :
                        DateIsoFormat(row.fiscal_date) = e[1][j].fiscal_date
                        => /\ row.estimated_eps = e[1][j].estimated_eps
                           /\ row.surprise_pct = e[1][j].surprise_pct

-----------------------------------------------------------------------------
\* search_stocks of stock_data.py: the search over the built-in catalog.

\* the longest query and the largest limit that are tried
MaxQuery == 2
MaxLimit == 3

\* four entries of POPULAR_STOCKS, in the order of the dict
POPULAR_STOCKS ==
    << [ticker |-> <<"A", "M", "Z", "N">>,
        name |-> <<"A", "m", "a", "z", "o", "n", ".", "c", "o", "m", " ",
                 "I", "n", "c", ".">>],
       [ticker |-> <<"N", "V", "D", "A">>,
        name |-> <<"N", "V", "I", "D", "I", "A", " ", "C", "o", "r", "p",
                 "o", "r", "a", "t", "i", "o", "n">>],
       [ticker |-> <<"V">>,
        name |-> <<"V", "i", "s", "a", " ", "I", "n", "c", ".">>],
       [ticker |-> <<"M", "A">>,
        name |-> <<"M", "a", "s", "t", "e", "r", "c", "a", "r", "d", " ",
                 "I", "n", "c", ".">>] >>

\* the characters queries are made of
QueryChars == {"v", "V", "m", "a", "A", " "}

\* the position of a character in the order of str comparison, for the
\* characters of the catalog's tickers
CharRank(c) == CHOOSE i \in 1..Len(UpperLetters) : UpperLetters[i] = c

\* a < b for two strings of upper-case letters
RECURSIVE StrLess(_, _)
StrLess(a, b) ==
    IF b = <<>> THEN FALSE
    ELSE IF a = <<>> THEN TRUE
    ELSE IF Head(a) # Head(b) THEN CharRank(Head(a)) < CharRank(Head(b))
    ELSE StrLess(Tail(a), Tail(b))

\* str.startswith
StartsWith(s, prefix) ==
    Len(prefix) <= Len(s) /\ SubSeq(s, 1, Len(prefix)) = prefix

\* the sort key of a result: exact match, prefix match, ticker
SortKey(x, query) ==
    << IF Upper(x.ticker) = query THEN 0 ELSE 1,
       IF StartsWith(Upper(x.ticker), query) THEN 0 ELSE 1,
       x.ticker >>

KeyLess(k1, k2) ==
    \/ k1[1] < k2[1]
    \/ k1[1] = k2[1] /\ k1[2] < k2[2]
    \/ k1[1] = k2[1] /\ k1[2] = k2[2] /\ StrLess(k1[3], k2[3])

\* results.sort(key=...): the tickers of the catalog are distinct, so no two
\* keys are equal
RECURSIVE SortResults(_, _)
SortResults(results, query) ==
    IF results = <<>> THEN <<>>
    ELSE LET i == CHOOSE i \in 1..Len(results) :
                     \A j \in 1..Len(results) :
                        j # i => KeyLess(SortKey(results[i], query),
                                         SortKey(results[j], query))
         IN  <<results[i]>>
             \o SortResults(SubSeq(results, 1, i - 1)
                            \o SubSeq(results, i + 1, Len(results)), query)

\* the loop over the catalog from entry i on: a matching entry is appended,
\* and the loop is left as soon as limit results are collected
RECURSIVE Collect(_, _, _, _)
Collect(i, results, query, limit) ==
    IF i > Len(POPULAR_STOCKS) THEN results
    ELSE LET entry == POPULAR_STOCKS[i]
             found == IF \/ Contains(Upper(entry.ticker), query)
                         \/ Contains(Upper(entry.name), query)
                      THEN Append(results, entry)
                      ELSE results
         IN  IF Len(found) >= limit THEN found
             ELSE Collect(i + 1, found, query, limit)

\* search_stocks(query, limit), for limit >= 1
search_stocks(q, limit) ==
    IF q = <<>> THEN <<>>
    ELSE LET query == Strip(Upper(q))
         IN  Take(SortResults(Collect(1, <<>>, query, limit), query), limit)

\* the search endpoint hands a query and a limit to search_stocks
SearchCall ==
    /\ call = NoCall
    /\ \E q \in SeqsUpTo(QueryChars, MaxQuery), limit \in 1..MaxLimit :
          call' = [fn |-> "search_stocks", query |-> q, limit |-> limit]
    /\ ret' = None
    /\ UNCHANGED <<now, api_key, summaries, earnings, pc, args, data, txn,
                   session, upstream, result, env, attempts,
                   estimates_cache, last_fetch>>

\* search_stocks returns
SearchReturns ==
    /\ call.fn = "search_stocks"
    /\ ret = None
    /\ ret' = Some(search_stocks(call.query, call.limit))
    /\ UNCHANGED <<now, api_key, summaries, earnings, pc, args, data, txn,
                   session, upstream, result, env, attempts, call,
                   estimates_cache, last_fetch>>

NextSearch == SearchCall \/ SearchReturns

SpecSearch == Init /\ [][NextSearch]_vars

\* C19: for every query and every limit >= 1, when the catalog has a ticker
\* equal to the query, that ticker is the first result; the results are in
\* the order exact match, prefix matches, then the rest by ticker.
C19_ExactMatchFirst ==
    (call.fn = "search_stocks" /\ ret # None) =>
        LET query == Strip(Upper(call.query))
        IN  /\ (\E i \in 1..Len(POPULAR_STOCKS) :
                   POPULAR_STOCKS[i].ticker = query)
               => (ret[1] # <<>> /\ ret[1][1].ticker = query)
            /\ \A i \in 1..Len(ret[1]) - 1 :
                  KeyLess(SortKey(ret[1][i], query),
                          SortKey(ret[1][i + 1], query))

-----------------------------------------------------------------------------
\* The REST handlers over get_stock_data (routers/stocks.py): what a finished
\* call of request r is answered with.

\* the path parameters that get_stock_data normalized to the ticker of r
PathTickers(r) == {raw \in RawTickers : NormalizeTicker(raw) = args[r].ticker}

\* str(e) of the exception a call ended with
StrOf(res) == [category |-> res.category, cause |-> res.cause]

\* HTTPException(status_code=404, detail=f"{prefix} {ticker}: {str(e)}")
HTTPException404(prefix, ticker, e) ==
    [status_code |-> 404, body |-> None,
     detail |-> Some([text |-> prefix, ticker |-> ticker, cause |-> e])]

\* a returned value, answered with status 200
Ok200(body) == [status_code |-> 200, body |-> Some(body), detail |-> None]

\* GET /api/stocks/{ticker}
get_stock(r) ==
    { IF result[r].kind = "ok"
      THEN Ok200(result[r].body[1])
      ELSE HTTPException404("Could not fetch data for", ticker,
                            StrOf(result[r]))
      : ticker \in PathTickers(r) }

\* GET /api/stocks/{ticker}/earnings, which never forces a refresh
get_earnings(r) ==
    IF args[r].force_refresh THEN {}
    ELSE { IF result[r].kind = "ok"
           THEN Ok200([ticker |-> ticker,
                       earnings |-> result[r].body[1].earnings])
           ELSE HTTPException404("Could not fetch earnings for", ticker,
                                 StrOf(result[r]))
           : ticker \in PathTickers(r) }

\* C18: every error the orchestrator raises is answered with status 404 and
\* a message that has the ticker and the cause in it, and every stale-served
\* snapshot with status 200 and the warning field; staleness is never
\* answered with an error status.
C18_ErrorIs404StaleIs200WithWarning ==
    \A r \in Reqs :
        Done(r) =>
            \A resp \in get_stock(r) \cup get_earnings(r) :
                /\ result[r].kind = "error" =>
                      /\ resp.status_code = 404
                      /\ resp.detail[1].ticker \in PathTickers(r)
                      /\ resp.detail[1].cause = StrOf(result[r])
                /\ result[r].path = "stale" =>
                      /\ resp.status_code = 200
                      /\ "_warning" \in DOMAIN resp.body[1]

-----------------------------------------------------------------------------
\* Writes into a store that already holds rows: those of another ticker,
\* written by earlier calls, and possibly those of the requested one.

\* a ticker that has rows in the store and is not requested
OtherTicker == <<"C", "D">>

\* the rows of the other ticker in both tables
OtherTables ==
    SavedTables(OtherTicker,
                CHOOSE p \in ProviderPayloads(OtherTicker) : Len(p.earnings) > 1)

InitStore ==
    /\ now = 0
    /\ api_key = Some(<<"k">>)
    /\ \E tables \in {EmptyTables}
                      \cup UNION { {SavedTables(t, p) :
                                       p \in ProviderPayloads(t)} :
                                   t \in KnownTickers } :
          /\ summaries = tables.summaries \cup OtherTables.summaries
          /\ earnings = tables.earnings (+) OtherTables.earnings
    /\ pc = [r \in Reqs |-> "idle"]
    /\ args = [r \in Reqs |-> NoArgs]
    /\ data = [r \in Reqs |-> None]
    /\ txn = [r \in Reqs |-> NoTxn]
    /\ session = [r \in Reqs |-> "ok"]
    /\ upstream = [r \in Reqs |-> 0]
    /\ result = [r \in Reqs |-> NoResult]
    /\ env = [finnhub |-> None, alpha_vantage |-> None]
    /\ attempts = <<>>
    /\ call = NoCall
    /\ ret = None
    /\ estimates_cache = NoEstimates
    /\ last_fetch = NoEstimates

\* requests served one at a time over that store
NextStore ==
    \/ Request("r1")
    \/ Tick

SpecStore == InitStore /\ [][NextStore]_vars

\* C13: after a successful write for a ticker its persisted earnings rows are
\* exactly the rows of the written payload, as many as the payload has lines
\* whatever was there before, and the rows of other tickers are as they were.
C13_WriteReplacesEarnings ==
    \A r \in Reqs :
        (Done(r) /\ result[r].path = "fetched") =>
            /\ RowsOf(earnings, args[r].ticker)
                  = SeqToBag(NewEarningsRecords(args[r].ticker, data[r][1]))
            /\ BagCardinality(RowsOf(earnings, args[r].ticker))
                  = Len(data[r][1].earnings)
            /\ RowsOf(earnings, OtherTicker) = OtherTables.earnings
            /\ {x \in summaries : x.ticker = OtherTicker}
                  = OtherTables.summaries

\* a write of a one-line payload has ended for a ticker whose expired rows
\* the call had found, while the other ticker has rows
C13_Witness ==
    \E r \in Reqs :
        /\ Done(r)
        /\ result[r].path = "fetched"
        /\ args[r].cache_age # None
        /\ Len(data[r][1].earnings) = 1
        /\ BagCardinality(RowsOf(earnings, args[r].ticker)) = 1
        /\ BagCardinality(RowsOf(earnings, OtherTicker)) = 4

-----------------------------------------------------------------------------
\* Two requests served at the same time by two worker processes over the
\* same database: their steps interleave, each in its own session.

\* a request for a ticker the provider knows arrives at worker r
RaceCall(r) ==
    \E raw \in RawTickers, force_refresh \in BOOLEAN :
        /\ NormalizeTicker(raw) \in KnownTickers
        /\ Call(r, raw, force_refresh)

\* the steps of worker r; its provider answers and its database connection
\* does not fail
Worker(r) ==
    \/ RaceCall(r)
    \/ FetchReturns(r)
    \/ SaveDelete(r)
    \/ SaveValues(r)
    \/ SaveUpsert(r)
    \/ SaveCommit(r)

NextRace ==
    \/ Worker("r1")
    \/ Worker("r2")
    \/ Tick

SpecRace == InitStore /\ [][NextRace]_vars

\* C15: the fetched_at of a ticker's summary row changes only in a step in
\* which a write commits, and never to an earlier time, however the calls
\* follow each other or interleave.
C15_FetchedAtMonotone ==
    [][\A old \in summaries : \A new \in summaries' :
          old.ticker = new.ticker =>
              /\ new.fetched_at >= old.fetched_at
              /\ new.fetched_at # old.fetched_at =>
                    \E r \in Reqs : /\ pc[r] = "save_commit"
                                    /\ pc'[r] = "done"
                                    /\ result'[r].path = "fetched"]_vars

-----------------------------------------------------------------------------
\* YFinanceClient._fetch_and_cache run by two workers at the same time: the
\* steps of _parse_earnings and _parse_summary, each statement taking effect
\* when it is executed and each commit when it is issued.

\* the DELETE of the summary row waits while another open transaction has
\* deleted that row
SummaryDeleteWaits(r) ==
    \E o \in Others(r) : \E x \in txn[o].sdel : x.ticker = args[r].ticker

\* lines 162-184: Yahoo delivers info and earnings dates for the ticker
FetchAndCache(r) ==
    /\ pc[r] = "idle"
    /\ \E ticker \in KnownTickers : \E payload \in YahooPayloads(ticker) :
          /\ args' = [args EXCEPT ![r] = [NoArgs EXCEPT !.ticker = ticker]]
          /\ data' = [data EXCEPT ![r] = Some(payload)]
    /\ upstream' = [upstream EXCEPT ![r] = 1]
    /\ pc' = [pc EXCEPT ![r] = "parse_earnings"]
    /\ UNCHANGED <<now, api_key, summaries, earnings, txn, session, result>>
    /\ UNCHANGED <<env, attempts, call, ret, estimates_cache, last_fetch>>

\* _parse_earnings lines 204-206: with earnings dates, DELETE FROM earnings
\* WHERE ticker = ...; without, nothing is written
ParseEarningsDelete(r) ==
    /\ pc[r] = "parse_earnings"
    /\ IF data[r][1].earnings = <<>>
       THEN /\ pc' = [pc EXCEPT ![r] = "parse_summary"]
            /\ UNCHANGED txn
       ELSE /\ ~DeleteWaits(r)
            /\ txn' = [txn EXCEPT ![r].del =
                          RowsOf(ViewEarnings(Session(r)), args[r].ticker)]
            /\ pc' = [pc EXCEPT ![r] = "parse_earnings_commit"]
    /\ UNCHANGED <<now, api_key, summaries, earnings, args, data, session,
                   upstream, result>>
    /\ UNCHANGED <<env, attempts, call, ret, estimates_cache, last_fetch>>

\* _parse_earnings lines 208-242: the rows are added and committed
ParseEarningsCommit(r) ==
    /\ pc[r] = "parse_earnings_commit"
    /\ earnings' = ViewEarnings(Session(r))
                      (+) SeqToBag(YahooRecords(args[r].ticker, data[r][1]))
    /\ txn' = [txn EXCEPT ![r] = NoTxn]
    /\ pc' = [pc EXCEPT ![r] = "parse_summary"]
    /\ UNCHANGED <<now, api_key, summaries, args, data, session, upstream,
                   result>>
    /\ UNCHANGED <<env, attempts, call, ret, estimates_cache, last_fetch>>

\* _parse_summary line 299: DELETE FROM stock_summaries WHERE ticker = ...
ParseSummaryDelete(r) ==
    /\ pc[r] = "parse_summary"
    /\ ~SummaryDeleteWaits(r)
    /\ txn' = [txn EXCEPT ![r].sdel =
                  {x \in summaries : x.ticker = args[r].ticker}]
    /\ pc' = [pc EXCEPT ![r] = "parse_summary_commit"]
    /\ UNCHANGED <<now, api_key, summaries, earnings, args, data, session,
                   upstream, result>>
    /\ UNCHANGED <<env, attempts, call, ret, estimates_cache, last_fetch>>

\* _parse_summary lines 311-331: db.add(summary) and db.commit().  The flush
\* inserts the row; the unique index on ticker rejects it when a committed
\* row of the ticker is left that this transaction did not delete, and the
\* exception leaves _fetch_and_cache (lines 196-198)
ParseSummaryCommit(r) ==
    /\ pc[r] = "parse_summary_commit"
    /\ LET ticker == args[r].ticker
           left == summaries \ txn[r].sdel
           summary == WaterfallSummary(ticker, data[r][1])
       IN  IF \E x \in left : x.ticker = ticker
           THEN /\ Finish(r, Raised("Unclassified", "duplicate_key"))
                /\ UNCHANGED summaries
           ELSE /\ summaries' = left \cup {summary}
                /\ Finish(r, Returned("Yahoo",
                       YFinance_format_response(ticker, summary,
                           QueryEarnings(Session(r), ticker)),
                       "none", None))
    /\ txn' = [txn EXCEPT ![r] = NoTxn]
    /\ UNCHANGED <<now, api_key, earnings, args, data, session, upstream>>
    /\ UNCHANGED <<env, attempts, call, ret, estimates_cache, last_fetch>>

FetchWorker(r) ==
    \/ FetchAndCache(r)
    \/ ParseEarningsDelete(r)
    \/ ParseEarningsCommit(r)
    \/ ParseSummaryDelete(r)
    \/ ParseSummaryCommit(r)

NextFetchRace ==
    \/ FetchWorker("r1")
    \/ FetchWorker("r2")
    \/ Tick

SpecFetchRace == InitStore /\ [][NextFetchRace]_vars

\* C14: however two concurrent writes for the same ticker interleave, no
\* write ends in an error, no ticker ever has more than one summary row, and
\* when both writes are over the ticker has exactly one.
C14_ConcurrentWritesOneSummaryRow ==
    /\ \A x \in summaries, y \in summaries : x.ticker = y.ticker => x = y
    /\ \A r \in Reqs : Done(r) => result[r].kind = "ok"
    /\ (\A r \in Reqs : Done(r)) =>
          \A r \in Reqs : \E x \in summaries : x.ticker = args[r].ticker

-----------------------------------------------------------------------------
\* Two overlapping writes of StockDataClient._save_polygon_data for one
\* ticker, under SpecRace.

\* both workers have written the same ticker and both writes are committed
BothWrote ==
    /\ \A r \in Reqs : Done(r) /\ result[r].path = "fetched"
    /\ args["r1"].ticker = args["r2"].ticker

\* C22: when two concurrent writes for the same ticker are both committed, the
\* persisted earnings rows of the ticker are exactly the rows of one of the
\* two writes: no row of the other write, no row twice.
C22_CleanReplacement ==
    BothWrote =>
        \E r \in Reqs :
            RowsOf(earnings, args[r].ticker)
                = SeqToBag(NewEarningsRecords(args[r].ticker, data[r][1]))

-----------------------------------------------------------------------------
\* The snapshot served from the except branch of get_stock_data, under Spec.

\* C29: every response served as stale is the committed snapshot of the
\* ticker, the summary row with all its committed earnings rows, also when
\* the failure came from _save_polygon_data after its DELETE had run in the
\* session that then reads the stale rows.
C29_StaleIsCommittedSnapshot ==
    \A r \in Reqs :
        (Done(r) /\ result[r].path = "stale") =>
            /\ HasCommittedRow(args[r].ticker)
            /\ SnapshotOf(result[r].body[1]) = CommittedSnapshot(args[r].ticker)

-----------------------------------------------------------------------------
\* StockDataClient._save_polygon_data called on its own with any payload
\* dict, the earnings lines carrying pe_ratio and price values of their own.

\* the payloads of the provider, and the same with line i carrying its own
\* pe_ratio and price
SavePayloads(ticker) ==
    ProviderPayloads(ticker)
        \cup { [p EXCEPT !.earnings =
                   [i \in DOMAIN p.earnings |->
                       [p.earnings[i] EXCEPT !.pe_ratio = Some(6 + i),
                                             !.price = Some(30 + i)]]]
               : p \in ProviderPayloads(ticker) }

\* _save_polygon_data(ticker, data, db) is entered
SaveCall(r) ==
    /\ pc[r] = "idle"
    /\ \E ticker \in KnownTickers : \E payload \in SavePayloads(ticker) :
          /\ args' = [args EXCEPT ![r] = [NoArgs EXCEPT !.ticker = ticker]]
          /\ data' = [data EXCEPT ![r] = Some(payload)]
    /\ pc' = [pc EXCEPT ![r] = "save_delete"]
    /\ UNCHANGED <<now, api_key, summaries, earnings, txn, session, upstream,
                   result>>
    /\ UNCHANGED <<env, attempts, call, ret, estimates_cache, last_fetch>>

NextSave ==
    \/ SaveCall("r1")
    \/ SaveDelete("r1")
    \/ SaveValues("r1")
    \/ SaveUpsert("r1")
    \/ SaveCommit("r1")
    \/ Return("r1")
    \/ Tick

SpecSave == InitStore /\ [][NextSave]_vars

\* the price _save_polygon_data stores: the payload's current_price, 0 when
\* it is missing
PriceOrZero(payload) ==
    IF payload.current_price = None THEN Some(0) ELSE payload.current_price

-----------------------------------------------------------------------------
\* FinnhubEstimatesClient.get_earnings_estimates of finnhub_client.py: the
\* call with its cache, and the answers of GET /stock/earnings.

\* the ticker strings callers pass
EstimateTickers == {<<"a", "b">>, <<"A", "B">>, <<>>}

\* timedelta(hours=6)
ESTIMATES_TTL == Hours(6)

\* what a call does: return a value or raise
ReturnValue(v) == [kind |-> "return", value |-> v]

RaiseError == [kind |-> "raise", value |-> None]

\* JSON values of a response body
JsonNull == [type |-> "null", items |-> <<>>, members |-> <<>>]

JsonObject(members) == [type |-> "object", items |-> <<>>, members |-> members]

JsonList(items) == [type |-> "list", items |-> items, members |-> <<>>]

JsonString(s) == [type |-> "string", items |-> s, members |-> <<>>]

\* bool(data) of a decoded JSON value
JsonTruthy(v) ==
    CASE v.type = "null" -> FALSE
      [] v.type = "object" -> DOMAIN v.members # {}
      [] OTHER -> v.items # <<>>

\* an element of the earnings list of the upstream, with its period
EstimateItem(period) ==
    JsonObject([period |-> period, actual |-> Some(2), estimate |-> Some(140),
                surprisePercent |-> Some(710)])

\* the periods the upstream sends: a quarter, a date, an empty string, null,
\* a quarter out of range, a string with two quarter marks
Periods ==
    <<Some(<<"2024", "-Q", "2">>), Some(<<"2024-06-30">>), Some(<<>>), None,
      Some(<<"2024", "-Q", "9">>), Some(<<"2024", "-Q", "1", "-Q", "2">>)>>

\* the decoded bodies of a 200 response
JsonBodies ==
    {JsonNull, JsonObject(<<>>), JsonObject([error |-> "no access"]),
     JsonList(<<>>), JsonList(<<JsonString(<<"n/a">>)>>),
     JsonList(<<EstimateItem(Periods[1]), JsonString(<<"n/a">>)>>),
     JsonList(<<JsonObject([actual |-> Some(2)])>>),
     JsonList(<<EstimateItem(Periods[1])>>),
     JsonList([i \in DOMAIN Periods |-> EstimateItem(Periods[i])])}

\* what requests.get(url, params=params, timeout=15) can produce: an
\* exception (timeout, connection error), or a response with a status code
\* and a body that decodes as JSON or does not
FinnhubResponses ==
    {[error |-> TRUE, status_code |-> 0, json |-> None]}
        \cup {[error |-> FALSE, status_code |-> c, json |-> None]
              : c \in {429, 403, 401, 500, 200}}
        \cup {[error |-> FALSE, status_code |-> 200, json |-> Some(b)]
              : b \in JsonBodies}

\* item.get(key, default)
ItemGet(item, key, default) ==
    IF key \in DOMAIN item THEN item[key] ELSE default

\* period.split("-Q")
RECURSIVE SplitQ(_)
SplitQ(period) ==
    IF \A i \in 1..Len(period) : period[i] # "-Q"
    THEN <<period>>
    ELSE LET i == CHOOSE j \in 1..Len(period) :
                      /\ period[j] = "-Q"
                      /\ \A h \in 1..(j - 1) : period[h] # "-Q"
         IN  <<SubSeq(period, 1, i - 1)>>
                 \o SplitQ(SubSeq(period, i + 1, Len(period)))

\* quarter_months.get(q, '12-31')
quarter_months(q) ==
    CASE q = <<"1">> -> "03-31"
      [] q = <<"2">> -> "06-30"
      [] q = <<"3">> -> "09-30"
      [] OTHER -> "12-31"

\* lines 85-97: fiscal_date of a period; None where the inner try catches
\* (period is null, or the split has not two parts)
fiscal_date_of(period) ==
    IF period = None
    THEN None
    ELSE IF \E i \in 1..Len(period[1]) : period[1][i] = "-Q"
    THEN IF Len(SplitQ(period[1])) # 2
         THEN None
         ELSE Some(SplitQ(period[1])[1]
                       \o <<"-", quarter_months(SplitQ(period[1])[2])>>)
    ELSE period

\* lines 99-105: the record appended for an item
estimate_record(item) ==
    [fiscal_date |-> fiscal_date_of(ItemGet(item, "period", Some(<<>>))),
     reported_eps |-> ItemGet(item, "actual", None),
     estimated_eps |-> ItemGet(item, "estimate", None),
     surprise_pct |-> ItemGet(item, "surprisePercent", None),
     period |-> ItemGet(item, "period", Some(<<>>))]

\* lines 65-116, the body of the try: the outcome for a response, and
\* whether the result is stored in the cache
fetch_estimates(response) ==
    IF response.error
    THEN [outcome |-> RaiseError, store |-> FALSE]
    ELSE IF response.status_code = 429 \/ response.status_code = 403
    THEN [outcome |-> ReturnValue(None), store |-> FALSE]
    ELSE IF response.status_code >= 400
    THEN [outcome |-> RaiseError, store |-> FALSE]
    ELSE IF response.json = None
    THEN [outcome |-> RaiseError, store |-> FALSE]
    ELSE LET body == response.json[1]
         IN  IF ~JsonTruthy(body) \/ body.type # "list"
             THEN [outcome |-> ReturnValue(None), store |-> FALSE]
             ELSE IF \E i \in 1..Len(body.items) :
                        body.items[i].type # "object"
             THEN [outcome |-> RaiseError, store |-> FALSE]
             ELSE LET earnings_data ==
                          [i \in 1..Len(body.items) |->
                              estimate_record(body.items[i].members)]
                  IN  IF earnings_data # <<>>
                      THEN [outcome |-> ReturnValue(Some(earnings_data)),
                            store |-> TRUE]
                      ELSE [outcome |-> ReturnValue(None), store |-> FALSE]

\* the call without its except clause: the exception leaves the call
caught_reraised(tried) == tried

\* lines 118-120: except Exception: return None
caught(tried) ==
    IF tried.outcome.kind = "raise"
    THEN [outcome |-> ReturnValue(None), store |-> FALSE]
    ELSE tried

\* a cached entry counts as fresh up to and including 6 hours
estimates_cache_fresh_inclusive(cached) ==
    now - cached.timestamp <= ESTIMATES_TTL

\* lines 50-51: age < timedelta(hours=6)
estimates_cache_fresh(cached) == now - cached.timestamp < ESTIMATES_TTL

\* lines 40-53: the call is entered; unconfigured it returns None, with a
\* fresh cache entry it returns the entry's data, else it goes on to the
\* request
EstimatesCall ==
    /\ call = NoCall
    /\ \E ticker \in EstimateTickers :
         LET cached == estimates_cache[Upper(ticker)]
             entered == [fn |-> "get_earnings_estimates", ticker |-> ticker,
                         requests |-> 0, response |-> None]
         IN  /\ call' = entered
             /\ IF ~finnhub_estimates_is_configured
                THEN ret' = Some(ReturnValue(None))
                ELSE IF cached # None /\ estimates_cache_fresh(cached[1])
                THEN ret' = Some(ReturnValue(Some(cached[1].data)))
                ELSE ret' = None
    /\ UNCHANGED <<now, api_key, summaries, earnings, pc, args, data, txn,
                   session, upstream, result, env, attempts,
                   estimates_cache, last_fetch>>

\* lines 55-120: the request is answered and the call returns
EstimatesResponds ==
    /\ call.fn = "get_earnings_estimates"
    /\ ret = None
    /\ \E response \in FinnhubResponses :
         LET done == caught(fetch_estimates(response))
             key == Upper(call.ticker)
         IN  /\ call' = [call EXCEPT !.requests = @ + 1,
                                     !.response = Some(response)]
             /\ ret' = Some(done.outcome)
             /\ estimates_cache' =
                    IF done.store
                    THEN [estimates_cache EXCEPT ![key] =
                             Some([data |-> done.outcome.value[1],
                                   timestamp |-> now])]
                    ELSE estimates_cache
             /\ last_fetch' =
                    [last_fetch EXCEPT ![key] =
                        Some([value |-> done.outcome.value, at |-> now])]
    /\ UNCHANGED <<now, api_key, summaries, earnings, pc, args, data, txn,
                   session, upstream, result, env, attempts>>

\* the caller has the return value
EstimatesDone ==
    /\ call.fn = "get_earnings_estimates"
    /\ ret # None
    /\ call' = NoCall
    /\ ret' = None
    /\ UNCHANGED <<now, api_key, summaries, earnings, pc, args, data, txn,
                   session, upstream, result, env, attempts,
                   estimates_cache, last_fetch>>

\* time passes: a minute, or a minute less than the cache's 6 hours
EstimatesTickSteps == {Minutes(1), ESTIMATES_TTL - Minutes(1)}

EstimatesTicks(t) == (t \div (ESTIMATES_TTL - 1)) + (t % (ESTIMATES_TTL - 1))

EstimatesTick ==
    /\ EstimatesTicks(now) < MaxTicks
    /\ \E d \in EstimatesTickSteps : now' = now + d
    /\ UNCHANGED <<api_key, summaries, earnings, pc, args, data, txn, session,
                   upstream, result>>
    /\ UNCHANGED <<env, attempts, call, ret, estimates_cache, last_fetch>>

\* FinnhubEstimatesClient(): FINNHUB_API_KEY unset, empty or set
InitFinnhub ==
    /\ now = 0
    /\ api_key = None
    /\ summaries = {}
    /\ earnings = EmptyBag
    /\ pc = [r \in Reqs |-> "idle"]
    /\ args = [r \in Reqs |-> NoArgs]
    /\ data = [r \in Reqs |-> None]
    /\ txn = [r \in Reqs |-> NoTxn]
    /\ session = [r \in Reqs |-> "ok"]
    /\ upstream = [r \in Reqs |-> 0]
    /\ result = [r \in Reqs |-> NoResult]
    /\ env \in {[finnhub |-> k, alpha_vantage |-> None]
                : k \in {None, Some(<<>>), Some(<<"k">>)}}
    /\ attempts = <<>>
    /\ call = NoCall
    /\ ret = None
    /\ estimates_cache = NoEstimates
    /\ last_fetch = NoEstimates

NextFinnhub ==
    \/ EstimatesCall
    \/ EstimatesResponds
    \/ EstimatesDone
    \/ EstimatesTick

SpecFinnhub == InitFinnhub /\ [][NextFinnhub]_vars

\* a call of get_earnings_estimates has ended
EstimatesEnded == call.fn = "get_earnings_estimates" /\ ret # None

\* the answer carries data: status 200 and a JSON list of at least one
\* object
UsableAnswer(response) ==
    /\ ~response.error
    /\ response.status_code = 200
    /\ response.json # None
    /\ response.json[1].type = "list"
    /\ response.json[1].items # <<>>
    /\ \A i \in 1..Len(response.json[1].items) :
          response.json[1].items[i].type = "object"

\* C23: get_earnings_estimates never raises, for any ticker string; it
\* returns None when the adapter is unconfigured and when the upstream
\* answered with anything but data (an exception of the transport, a status
\* of rate limiting, authentication or failure, a body that is no JSON, no
\* list, an empty list, or a list with an element that is no object);
\* otherwise it returns a non-empty list, one record per element.
C23_EstimatesNoneOrNonEmptyList ==
    EstimatesEnded =>
        /\ ret[1].kind = "return"
        /\ ~finnhub_estimates_is_configured => ret[1].value = None
        /\ ret[1].value # None => ret[1].value[1] # <<>>
        /\ call.response # None =>
              IF UsableAnswer(call.response[1])
              THEN /\ ret[1].value # None
                   /\ Len(ret[1].value[1]) = Len(call.response[1].json[1].items)
              ELSE ret[1].value = None

\* a call for the empty ticker string has returned None after the request
\* raised an exception
C23_Witness ==
    /\ EstimatesEnded
    /\ call.ticker = <<>>
    /\ call.response # None
    /\ call.response[1].error
    /\ ret[1] = ReturnValue(None)

\* a step in which a call is entered
EstimatesEntered == call = NoCall /\ call'.fn = "get_earnings_estimates"

\* C24: a call for a ticker whose latest upstream answer was a non-empty
\* result less than 6 hours ago returns that result without a request; one
\* entered 6 hours or more after it, or after an answer that gave no result,
\* goes on to a request.
C24_CachedSixHours ==
    [][\A k \in EstimateKeys :
          (/\ EstimatesEntered
           /\ Upper(call'.ticker) = k
           /\ finnhub_estimates_is_configured
           /\ last_fetch[k] # None)
          => IF /\ last_fetch[k][1].value # None
                /\ now - last_fetch[k][1].at < Hours(6)
             THEN /\ ret' = Some(ReturnValue(last_fetch[k][1].value))
                  /\ call'.requests = 0
             ELSE ret' = None]_vars

\* a call entered with lower-case letters 5 hours 59 minutes after the
\* fetch has returned the fetched lines without a request
C24_Witness ==
    /\ EstimatesEnded
    /\ call.ticker = <<"a", "b">>
    /\ call.requests = 0
    /\ ret[1].value # None
    /\ last_fetch[<<"A", "B">>] # None
    /\ now - last_fetch[<<"A", "B">>][1].at = Hours(6) - Minutes(1)

\* C25: a call that was answered with status 429 has retried: it does not
\* return before it has sent more than one request.
C25_RetriesWhenRateLimited ==
    (/\ EstimatesEnded
     /\ call.response # None
     /\ call.response[1].status_code = 429)
    => call.requests > 1

-----------------------------------------------------------------------------
\* PolygonClient.get_stock_data of polygon_client.py after its four queries
\* have answered: the derived metrics computed from the ticker details, the
\* previous close and the financial statements.

\* values of fields in the upstream's JSON: null or absent, a number, a
\* string that is no number, an object {"value": ...}
Null == [type |-> "null", value |-> None]

Number(n) == [type |-> "number", value |-> Some(n)]

Text == [type |-> "string", value |-> None]

ValueDict(v) == [type |-> "dict", value |-> v]

\* bool(x)
PyTruthy(x) ==
    CASE x.type = "null" -> FALSE
      [] x.type = "number" -> x.value[1] # 0
      [] OTHER -> TRUE

\* a or b
PyOr(a, b) == IF PyTruthy(a) THEN a ELSE b

\* float(x): raises for a string that is no number, for an object and for
\* None
Float(x) == IF x.type = "number" THEN ReturnValue(x.value) ELSE RaiseError

\* the balance sheet fields read by the metrics below
BalanceKeys ==
    {"shares_outstanding", "common_stock_shares_outstanding",
     "long_term_debt", "total_debt", "liabilities",
     "cash_and_cash_equivalents", "cash"}

\* lines 1033-1039: the loop over the balance sheet's share counts
RECURSIVE balance_shares(_, _, _)
balance_shares(balance, keys, i) ==
    IF i > Len(keys)
    THEN ReturnValue(None)
    ELSE IF balance[keys[i]].type = "dict"
    THEN ReturnValue(balance[keys[i]].value)
    ELSE IF balance[keys[i]].type # "null"
    THEN Float(balance[keys[i]])
    ELSE balance_shares(balance, keys, i + 1)

\* _get_shares_outstanding (lines 1022-1040): no try; financials[0]
\* .get("financials") that is null makes fin.get raise
get_shares_outstanding(details, financials) ==
    LET shares == PyOr(details.weighted_shares_outstanding,
                       details.shares_outstanding)
    IN  IF PyTruthy(shares)
        THEN Float(shares)
        ELSE IF financials # <<>>
        THEN IF financials[1].financials = None
             THEN RaiseError
             ELSE balance_shares(financials[1].financials[1].balance_sheet,
                                 <<"shares_outstanding",
                                   "common_stock_shares_outstanding">>, 1)
        ELSE ReturnValue(None)

\* lines 1056-1078: debt and cash of _calculate_ev: the first candidate that
\* is present decides; 0 when there is none
RECURSIVE first_amount(_, _, _)
first_amount(balance, keys, i) ==
    IF i > Len(keys)
    THEN ReturnValue(Some(0))
    ELSE IF balance[keys[i]].type = "dict"
    THEN ReturnValue(balance[keys[i]].value)
    ELSE IF balance[keys[i]].type # "null"
    THEN Float(balance[keys[i]])
    ELSE first_amount(balance, keys, i + 1)

\* _calculate_ev (lines 1042-1083): Optional number; every exception inside
\* is caught and gives None
calculate_ev(details, financials, price_data) ==
    LET derive == /\ ~PyTruthy(details.market_cap)
                  /\ PyTruthy(price_data.close)
        shares == get_shares_outstanding(details, financials)
    IN  IF derive /\ shares.kind = "raise"
        THEN None
        ELSE LET market_cap ==
                     IF derive /\ shares.value # None /\ shares.value[1] # 0
                     THEN IF price_data.close.type = "number"
                          THEN Some(shares.value[1] * price_data.close.value[1])
                          ELSE None
                     ELSE details.market_cap.value
             IN  IF market_cap = None \/ market_cap = Some(0)
                 THEN None
                 ELSE IF financials = <<>>
                 THEN None
                 ELSE IF financials[1].financials = None
                 THEN None
                 ELSE LET balance == financials[1].financials[1].balance_sheet
                          debt == first_amount(balance,
                                      <<"long_term_debt", "total_debt",
                                        "liabilities">>, 1)
                          cash == first_amount(balance,
                                      <<"cash_and_cash_equivalents",
                                        "cash">>, 1)
                      IN  IF \/ debt.kind = "raise" \/ cash.kind = "raise"
                             \/ debt.value = None \/ cash.value = None
                          THEN None
                          ELSE Some(market_cap[1] + debt.value[1]
                                        - cash.value[1])

\* _extract_balance_sheet (lines 1004-1020)
extract_balance_sheet(financials, field) ==
    IF financials = <<>>
    THEN None
    ELSE IF financials[1].financials = None
    THEN None
    ELSE LET found == financials[1].financials[1].balance_sheet[field]
         IN  IF found.type = "dict" THEN found.value
             ELSE IF found.type = "number" THEN found.value
             ELSE None

\* get_stock_data lines 27-112 (the metrics named here): the payload, or
\* the exception of a step, which the except clause logs and raises again
polygon_get_stock_data(details, price_data, financials) ==
    IF get_shares_outstanding(details, financials).kind = "raise"
    THEN RaiseError
    ELSE ReturnValue(Some(
            [market_cap |-> details.market_cap.value,
             current_price |-> price_data.close.value,
             shares_outstanding |->
                 get_shares_outstanding(details, financials).value,
             enterprise_value |-> calculate_ev(details, financials, price_data),
             cash |-> extract_balance_sheet(financials,
                                            "cash_and_cash_equivalents")]))

\* results of GET /v3/reference/tickers/{ticker}
TickerDetails ==
    [market_cap : {Null, Number(900)},
     weighted_shares_outstanding : {Null, Number(0), Number(10), Text},
     shares_outstanding : {Null, Number(20)}]

\* _get_previous_close
PriceData == [close : {Null, Number(40)}]

\* a balance sheet with the given share count, debt and cash
BalanceSheet(shares, debt, cash) ==
    [k \in BalanceKeys |->
        CASE k = "shares_outstanding" -> shares
          [] k = "long_term_debt" -> debt
          [] k = "cash_and_cash_equivalents" -> cash
          [] OTHER -> Null]

\* results of GET /vX/reference/financials: none, one whose statements are
\* null, or one with a balance sheet
Financials ==
    {<<>>, <<[financials |-> None]>>}
        \cup { <<[financials |->
                     Some([balance_sheet |-> BalanceSheet(shares, debt, cash)])]>>
               : shares \in {Null, ValueDict(Some(30)), Text},
                 debt \in {Null, ValueDict(Some(100)), ValueDict(None)},
                 cash \in {Null, Number(5)} }

\* the four queries have answered
PolygonCall ==
    /\ call = NoCall
    /\ \E details \in TickerDetails, price_data \in PriceData,
          financials \in Financials :
          call' = [fn |-> "polygon_get_stock_data", details |-> details,
                   price_data |-> price_data, financials |-> financials]
    /\ ret' = None
    /\ UNCHANGED <<now, api_key, summaries, earnings, pc, args, data, txn,
                   session, upstream, result, env, attempts,
                   estimates_cache, last_fetch>>

\* the metrics are computed and the call returns or raises
PolygonReturns ==
    /\ call.fn = "polygon_get_stock_data"
    /\ ret = None
    /\ ret' = Some(polygon_get_stock_data(call.details, call.price_data,
                                          call.financials))
    /\ UNCHANGED <<now, api_key, summaries, earnings, pc, args, data, txn,
                   session, upstream, result, env, attempts, call,
                   estimates_cache, last_fetch>>

NextPolygon == PolygonCall \/ PolygonReturns

SpecPolygon == Init /\ [][NextPolygon]_vars

\* C26: whenever the four upstream queries have answered, get_stock_data of
\* the primary adapter returns a payload: a metric that cannot be computed
\* (field missing, value no number, division by zero) is None in it and the
\* call does not raise.
C26_MetricFailureDegradesToNone ==
    (call.fn = "polygon_get_stock_data" /\ ret # None) =>
        /\ ret[1].kind = "return"
        /\ ret[1].value # None

-----------------------------------------------------------------------------
\* The line-item lookups of polygon_client.py: a list of candidate field
\* names is tried on a financial statement.

\* x.get("value") of an object {"value": ...}
ValueOf(x) == IF x.value = None THEN Null ELSE Number(x.value[1])

\* the candidates for revenue in _build_earnings_from_financials
RevenueKeys == <<"revenues", "total_revenue", "revenue">>

\* the candidates of _get_latest_fcf
FcfKeys == <<"free_cash_flow", "net_cash_flow_from_operating_activities">>

\* lines 237-245 (and 247-255, 257-265): the loop that assigns the
\* candidate's value and breaks when it is truthy
RECURSIVE line_item_loop(_, _, _, _)
line_item_loop(statement, keys, i, found) ==
    IF i > Len(keys)
    THEN found
    ELSE LET next == IF statement[keys[i]].type = "dict"
                     THEN ValueOf(statement[keys[i]])
                     ELSE IF statement[keys[i]].type # "null"
                     THEN statement[keys[i]]
                     ELSE found
         IN  IF PyTruthy(next)
             THEN next
             ELSE line_item_loop(statement, keys, i + 1, next)

\* revenue of one financial statement, None to begin with
line_item(statement, keys) == line_item_loop(statement, keys, 1, Null)

\* _get_latest_fcf lines 422-427: the first candidate that is an object
\* gives its value, the first one that is not null gives itself
RECURSIVE latest_fcf(_, _, _)
latest_fcf(cash_flow, keys, i) ==
    IF i > Len(keys)
    THEN Null
    ELSE IF cash_flow[keys[i]].type = "dict"
    THEN ValueOf(cash_flow[keys[i]])
    ELSE IF cash_flow[keys[i]].type # "null"
    THEN cash_flow[keys[i]]
    ELSE latest_fcf(cash_flow, keys, i + 1)

\* the values a candidate field can have in a statement
FieldValues ==
    {Null, Number(0), Number(500), ValueDict(None), ValueDict(Some(0)),
     ValueDict(Some(700))}

\* the set of a sequence's elements
Range(keys) == {keys[i] : i \in DOMAIN keys}

\* a lookup is made on a statement
LineItemCall ==
    /\ call = NoCall
    /\ \E keys \in {RevenueKeys, FcfKeys} :
       \E statement \in [Range(keys) -> FieldValues] :
          call' = [fn |-> "line_item", keys |-> keys, statement |-> statement]
    /\ ret' = None
    /\ UNCHANGED <<now, api_key, summaries, earnings, pc, args, data, txn,
                   session, upstream, result, env, attempts,
                   estimates_cache, last_fetch>>

\* the lookup gives its value
LineItemReturns ==
    /\ call.fn = "line_item"
    /\ ret = None
    /\ ret' = Some(IF call.keys = FcfKeys
                   THEN latest_fcf(call.statement, call.keys, 1)
                   ELSE line_item(call.statement, call.keys))
    /\ UNCHANGED <<now, api_key, summaries, earnings, pc, args, data, txn,
                   session, upstream, result, env, attempts, call,
                   estimates_cache, last_fetch>>

NextLineItem == LineItemCall \/ LineItemReturns

SpecLineItem == Init /\ [][NextLineItem]_vars

\* the value a candidate field stands for: the object's value, or the field
CandidateValue(field) == IF field.type = "dict" THEN ValueOf(field) ELSE field

\* the candidates, in order, that are present with a value that is not null
FoundAt(statement, keys) ==
    {i \in DOMAIN keys : CandidateValue(statement[keys[i]]) # Null}

\* C27: a line-item lookup gives the value of the first candidate, in the
\* listed order, that is present and not null, zero included, and None when
\* there is no such candidate.
C27_FirstPresentCandidateWins ==
    (call.fn = "line_item" /\ ret # None) =>
        LET at == FoundAt(call.statement, call.keys)
        IN  IF at = {}
            THEN ret[1] = Null
            ELSE ret[1] = CandidateValue(
                     call.statement[call.keys[CHOOSE i \in at :
                                                 \A j \in at : i <= j]])

-----------------------------------------------------------------------------
\* The ticker get_stock_data works with, under Spec.

\* upper case, no whitespace at either end
Normalized(t) ==
    /\ t = Upper(t)
    /\ t # <<>> => (~IsWhitespace(t[1]) /\ ~IsWhitespace(t[Len(t)]))

\* two ticker strings that differ only in letter case or in surrounding
\* whitespace
SameSymbol(a, b) == Strip(Lower(a)) = Strip(Lower(b))

\* C28: a call works with the upper-case, stripped form of the ticker it
\* was given: a call that is not forced hits the row of that form that is
\* within the longest TTL, whatever the letter case and surrounding
\* whitespace of the request, the provider is asked for that form, and
\* every persisted row has a ticker of that form.
C28_TickerNormalizedEverywhere ==
    [][\A r \in Reqs :
          /\ (pc[r] = "idle" /\ pc'[r] # "idle") =>
                /\ Normalized(args'[r].ticker)
                /\ SameSymbol(args'[r].ticker, args'[r].raw)
                /\ \A s \in summaries :
                      (/\ SameSymbol(s.ticker, args'[r].raw)
                       /\ is_configured
                       /\ ~args'[r].force_refresh
                       /\ now - s.fetched_at <= MaxTTL)
                      => /\ pc'[r] = "done"
                         /\ result'[r].path = "hit"
                         /\ result'[r].body[1].ticker = s.ticker
          /\ data'[r] # None => data'[r][1].ticker = args'[r].ticker
          /\ \A s \in summaries' : Normalized(s.ticker)
          /\ \A e \in BagToSet(earnings') : Normalized(e.ticker)]_vars

\* a call given " AB " has hit the row of AB, whose earnings rows are AB's
C28_Witness ==
    \E r \in Reqs :
        /\ Done(r)
        /\ result[r].path = "hit"
        /\ args[r].raw = <<" ", "A", "B", " ">>
        /\ result[r].body[1].ticker = <<"A", "B">>
        /\ \E e \in BagToSet(earnings) : e.ticker = <<"A", "B">>

-----------------------------------------------------------------------------
\* What other sessions can read while a write is under way: the committed
\* tables, step by step.

\* the committed summary rows of a ticker
SummaryOf(table, ticker) == {s \in table : s.ticker = ticker}

\* C21: the earnings rows of a ticker and its summary row are committed in
\* one step: the committed earnings rows of a ticker never change in a step
\* that leaves its committed summary row as it was, and a write that ends in
\* an error leaves both tables as they were.
C21_EarningsAndSummaryInOneTransaction ==
    [][/\ \A ticker \in KnownTickers :
             RowsOf(earnings', ticker) # RowsOf(earnings, ticker)
                 => SummaryOf(summaries', ticker) # SummaryOf(summaries, ticker)
       /\ \A r \in Reqs :
             (pc[r] # "done" /\ pc'[r] = "done" /\ result'[r].kind = "error")
                 => (summaries' = summaries /\ earnings' = earnings)]_vars

====
